---- MODULE Spec2Model ----
(***************************************************************************)
(* A model of the QVD decoder of qdata (class QvdFile / QvdValue of the    *)
(* qvd library, src/unnamed/part_004 lines 516-941).                       *)
(*                                                                         *)
(* One QvdFile object is modelled.  Its fields are the variables; load()   *)
(* is split at its await points into the steps _readData, _parseHeader,    *)
(* _parseSymbolTable, _parseIndexTable and the final assignment of         *)
(* _loaded; the accessors fieldNames, numberOfRows, getRow and getTable    *)
(* are actions that record what the call returned or threw.  The file on   *)
(* disk may be replaced between two loads of the same object.              *)
(*                                                                         *)
(* JavaScript values are tagged records: [t |-> "int", v |-> n],           *)
(* [t |-> "double", v |-> the eight bytes], [t |-> "string", v |-> the     *)
(* sequence of character codes], Null and Undefined.                       *)
(*                                                                         *)
(* The main process is modelled with its parseFile jobs (handlers/file,    *)
(* src/unnamed/part_006), the worker processes they fork                   *)
(* (src/app/workers/file.js) and the messages between WorkerClient and     *)
(* WorkerHost (src/unnamed/part_004 lines 206-515).                        *)
(*                                                                         *)
(* The window is modelled with the component DataTable (its filters, its   *)
(* sort and the rows it displays) and the screen Editor (its map of open   *)
(* files), and with the messages between Editor and the main process.      *)
(***************************************************************************)
EXTENDS Integers, Sequences, FiniteSets, TLC

VARIABLES
  disk,               \* the file at this._path: [xml, bytes]
  buffer,             \* this._buffer
  symbolTableOffset,  \* this._symbolTableOffset
  indexTableOffset,   \* this._indexTableOffset
  header,             \* this._header
  symbolTable,        \* this._symbolTable
  indexTable,         \* this._indexTable
  loaded,             \* this._loaded
  pc,                 \* position of the running load(): the phase to run next
  outcome,            \* how the last load() ended
  ret,                \* the last accessor call and what it returned or threw
  workers,            \* the child process of each parseFile job, by worker id
  messages,           \* the messages sent to the host and not yet received
  registeredWorkers,  \* the keys of WorkerHost._registeredWorkers
  joins,              \* the promise of join('done', workerId) of each job
  promises,           \* the promise parseFile returned for each job
  _instance,          \* WorkerHost._instance
  objects,            \* the number of WorkerHost objects allocated so far
  last,               \* the last call in the main process and how it ended
  currentFile,        \* the module variable currentFile of handlers/file
  recentFilesJson,    \* the file recentFiles.json in userData
  existingPaths,      \* the paths fs.existsSync finds
  calls,              \* the calls of the handlers, by call: where each one is
  recentFilesChanged, \* the last 'file:recentFilesChanged' sent to the windows
  table,              \* the prop table of DataTable: [columns, data]
  filter,             \* the state filter of DataTable
  sort,               \* the state sort of DataTable, its keys in their order
  preparedTable,      \* the rows DataTable displays: the value of its memo `data`
  cellContext,        \* the state cellContext of DataTable
  cellContextMenuCoordinates, \* where the context menu of a cell is shown
  listening,          \* whether Editor has registered its listeners
  files,              \* the map files of Editor, its keys in their order
  recentFiles,        \* recentFiles of the store of the window
  toMain,             \* the messages of the window the main process has not received
  toWindow            \* the messages of the main process the window has not received

\* The main process and its workers.
hostVars == <<workers, messages, registeredWorkers, joins, promises>>

\* The variables of the QvdFile object.
fileVars == <<disk, buffer, symbolTableOffset, indexTableOffset, header,
              symbolTable, indexTable, loaded, pc, outcome, ret>>

\* The module state of the main process.
mainVars == <<_instance, objects, last>>

\* The state of the handlers of handlers/file.
handlerVars == <<currentFile, recentFilesJson, existingPaths, calls, recentFilesChanged>>

\* The state of the component DataTable.
tableVars == <<table, filter, sort, preparedTable, cellContext,
               cellContextMenuCoordinates>>

\* The state of the screen Editor and the messages between it and the main
\* process.
editorVars == <<listening, files, recentFiles, toMain, toWindow>>

\* What a handler of the main process leaves alone in the window: all but
\* the messages sent to it.
notToWindow == <<tableVars, listening, files, recentFiles, toMain>>

rendererVars == <<tableVars, editorVars>>

vars == <<fileVars, hostVars, mainVars, handlerVars, rendererVars>>

\* What a step of one part leaves alone.
notFileVars == <<hostVars, mainVars, handlerVars, rendererVars>>

notHostVars == <<fileVars, mainVars, handlerVars, rendererVars>>

notMainVars == <<fileVars, hostVars, handlerVars, rendererVars>>

notRendererVars == <<fileVars, hostVars, mainVars, handlerVars>>

-----------------------------------------------------------------------------
(* JavaScript values *)

Null == [t |-> "null"]

Undefined == [t |-> "undefined"]

JsInt(n) == [t |-> "int", v |-> n]

JsDouble(bytes) == [t |-> "double", v |-> bytes]

JsString(codes) == [t |-> "string", v |-> codes]

\* `null != x`: loose inequality, false for null and for undefined only.
NotNullish(x) == x.t # "null" /\ x.t # "undefined"

\* A call that returned a value, and a call that threw.
Returned(v) == [kind |-> "value", val |-> v]

Threw(e) == [kind |-> "error", err |-> e]

\* A loop that runs past the end of its buffer and does not come back.
Hangs == [kind |-> "hang"]

-----------------------------------------------------------------------------
(* Numbers: the integers, and NaN *)

\* NaN, as parseInt returns it.  It is kept apart from every integer the model
\* computes, and only the operators below look at it.
NaN == -1000000

\* a + b
Plus(a, b) == IF a = NaN \/ b = NaN THEN NaN ELSE a + b

\* a < b: false when either side is NaN.
Lt(a, b) == a # NaN /\ b # NaN /\ a < b

\* a >= b: false when either side is NaN.
Ge(a, b) == a # NaN /\ b # NaN /\ a >= b

\* The integer an index argument of subarray() and slice() is converted to.
ToIntegerOrInfinity(n) == IF n = NaN THEN 0 ELSE n

\* The white space parseInt skips: tab, LF, VT, FF, CR, space.
WhiteSpace == {9, 10, 11, 12, 13, 32}

IsDigit(code) == code >= 48 /\ code <= 57

\* The value of the longest prefix of decimal digits of codes, after `value`.
RECURSIVE ParseDigits(_, _)
ParseDigits(codes, value) ==
  IF codes = <<>> \/ ~IsDigit(Head(codes)) THEN value
  ELSE ParseDigits(Tail(codes), 10 * value + (Head(codes) - 48))

RECURSIVE TrimStart(_)
TrimStart(codes) ==
  IF codes # <<>> /\ Head(codes) \in WhiteSpace THEN TrimStart(Tail(codes)) ELSE codes

\* parseInt(x, 10): x is converted to a string ("undefined" for undefined),
\* leading white space and one sign are skipped, and the longest prefix of
\* digits is the value; without a digit there the result is NaN.
parseInt(x) ==
  LET codes == IF x.t = "string" THEN TrimStart(x.v) ELSE <<117, 110, 100>>
      negative == codes # <<>> /\ Head(codes) = 45
      signed == codes # <<>> /\ Head(codes) \in {43, 45}
      digits == IF signed THEN Tail(codes) ELSE codes
  IN IF digits = <<>> \/ ~IsDigit(Head(digits)) THEN NaN
     ELSE IF negative THEN 0 - ParseDigits(digits, 0)
     ELSE ParseDigits(digits, 0)

-----------------------------------------------------------------------------
(* QvdValue *)

QvdValue(intValue, doubleValue, stringValue) ==
  [intValue |-> intValue, doubleValue |-> doubleValue, stringValue |-> stringValue]

fromIntValue(intValue) == QvdValue(intValue, Null, Null)

fromDoublValue(doubleValue) == QvdValue(Null, doubleValue, Null)

fromStringValue(stringValue) == QvdValue(Null, Null, stringValue)

fromDualIntValue(intValue, stringValue) == QvdValue(intValue, Null, stringValue)

fromDualDoubleValue(doubleValue, stringValue) == QvdValue(Null, doubleValue, stringValue)

\* A slip of toPrimaryValue: the integer is preferred to the string.
toPrimaryValueIntFirst(symbol) ==
  IF NotNullish(symbol.intValue) THEN symbol.intValue
  ELSE IF NotNullish(symbol.stringValue) THEN symbol.stringValue
  ELSE IF NotNullish(symbol.doubleValue) THEN symbol.doubleValue
  ELSE Null

toPrimaryValue(symbol) ==
  IF NotNullish(symbol.stringValue) THEN symbol.stringValue
  ELSE IF NotNullish(symbol.intValue) THEN symbol.intValue
  ELSE IF NotNullish(symbol.doubleValue) THEN symbol.doubleValue
  ELSE Null

-----------------------------------------------------------------------------
(* Buffers: sequences of bytes, addressed from 0 as in the source *)

\* buf[i]; -1 stands for undefined (a read outside the buffer).
At(buf, i) == IF i >= 0 /\ i < Len(buf) THEN buf[i + 1] ELSE -1

Min(a, b) == IF a < b THEN a ELSE b

Max(a, b) == IF a > b THEN a ELSE b

\* buf.subarray(begin, end) and array.slice(begin, end) for begin, end >= 0:
\* both ends are converted to integers (NaN to 0) and clamped to the length.
Subarray(buf, begin, end) ==
  LET b == Min(Max(ToIntegerOrInfinity(begin), 0), Len(buf))
      e == Min(Max(ToIntegerOrInfinity(end), 0), Len(buf))
  IN IF b >= e THEN <<>> ELSE [i \in 1..(e - b) |-> buf[b + i]]

Reverse(s) == [i \in 1..Len(s) |-> s[Len(s) + 1 - i]]

RECURSIVE Pow(_, _)
Pow(b, e) == IF e <= 0 THEN 1 ELSE b * Pow(b, e - 1)

\* A slip of indexOf: the last position where pattern occurs.
IndexOfLast(buf, pattern) ==
  LET hits == {i \in 0..(Len(buf) - Len(pattern)) :
                 \A k \in 1..Len(pattern) : buf[i + k] = pattern[k]}
  IN IF hits = {} THEN -1 ELSE CHOOSE i \in hits : \A j \in hits : i >= j

\* buf.indexOf(pattern, 0): the first position where pattern occurs, or -1.
IndexOf(buf, pattern) ==
  LET hits == {i \in 0..(Len(buf) - Len(pattern)) :
                 \A k \in 1..Len(pattern) : buf[i + k] = pattern[k]}
  IN IF hits = {} THEN -1 ELSE CHOOSE i \in hits : \A j \in hits : i <= j

\* Buffer.readIntLE(0, byteLength): the bytes as a little-endian two's
\* complement integer; the last byte carries the sign.
RECURSIVE ReadIntLE(_)
ReadIntLE(bytes) ==
  IF Len(bytes) = 1
    THEN (IF bytes[1] >= 128 THEN bytes[1] - 256 ELSE bytes[1])
    ELSE Head(bytes) + 256 * ReadIntLE(Tail(bytes))

-----------------------------------------------------------------------------
(* _parseHeader *)

\* '\r\n\0'
HEADER_DELIMITER == <<13, 10, 0>>

\* xml.parseStringPromise(text, {explicitArray: false}) on the header document.
\* The document `xml` lists the QvdFieldHeader elements of <Fields>.  With
\* explicitArray false, xml2js makes an array of a child element only when it
\* occurs more than once: one QvdFieldHeader is a plain object, and an empty
\* <Fields> is the empty string, whose QvdFieldHeader property is undefined.
\* Every attribute is the text of its element, a string, and undefined when
\* the element is missing.
parseStringPromise(xml) ==
  [NoOfRecords    |-> xml.NoOfRecords,
   RecordByteSize |-> xml.RecordByteSize,
   Offset         |-> xml.Offset,
   Length         |-> xml.Length,
   QvdFieldHeader |->
     [kind  |-> IF Len(xml.Fields) > 1 THEN "array"
                ELSE IF Len(xml.Fields) = 1 THEN "object" ELSE "undefined",
      items |-> xml.Fields]]

\* A slip of _parseHeader: the test for -1 is left out.
HeaderResultNoCheck(buf) ==
  LET headerEndIndex == IndexOf(buf.bytes, HEADER_DELIMITER) + Len(HEADER_DELIMITER)
      hdr == parseStringPromise(buf.xml)
  IN Returned([header |-> hdr,
               symbolTableOffset |-> headerEndIndex,
               indexTableOffset |-> Plus(headerEndIndex, parseInt(hdr.Offset))])

\* What _parseHeader does with this._buffer: it throws when the delimiter is
\* nowhere in the buffer, and otherwise returns the header and the two offsets
\* it assigns.
HeaderResult(buf) ==
  LET headerDelimiterIndex == IndexOf(buf.bytes, HEADER_DELIMITER)
      headerEndIndex == headerDelimiterIndex + Len(HEADER_DELIMITER)
      hdr == parseStringPromise(buf.xml)
  IN IF headerDelimiterIndex = -1 THEN Threw("Error: no header delimiter")
     ELSE Returned([header |-> hdr,
                    symbolTableOffset |-> headerEndIndex,
                    indexTableOffset |-> Plus(headerEndIndex, parseInt(hdr.Offset))])

-----------------------------------------------------------------------------
(* _parseSymbolTable *)

\* The while loop of a string payload, from `pointer`: the characters up to
\* the next 0 byte of symbolBuffer and the position of that byte.  A read past
\* the end gives undefined, which is not 0: the loop then never ends.
\* A slip of the string loop: the pointer is left past the 0 byte.
RECURSIVE ReadStringPastNul(_, _, _)
ReadStringPastNul(symbolBuffer, pointer, value) ==
  IF pointer >= Len(symbolBuffer) THEN Hangs
  ELSE IF At(symbolBuffer, pointer) = 0
         THEN Returned([value |-> JsString(value), pointer |-> pointer + 1])
         ELSE ReadStringPastNul(symbolBuffer, pointer + 1,
                                Append(value, At(symbolBuffer, pointer)))

RECURSIVE ReadString(_, _, _)
ReadString(symbolBuffer, pointer, value) ==
  IF pointer >= Len(symbolBuffer) THEN Hangs
  ELSE IF At(symbolBuffer, pointer) = 0
         THEN Returned([value |-> JsString(value), pointer |-> pointer])
         ELSE ReadString(symbolBuffer, pointer + 1,
                         Append(value, At(symbolBuffer, pointer)))

\* The for loop over one field's byte range [pointer, end): the symbols pushed
\* so far are `symbols`.  Each round reads the type byte at pointer, moves past
\* it, decodes the payload and lets the loop's own pointer++ take the last
\* payload byte (the 0 of a string).
RECURSIVE ParseSymbols(_, _, _, _)
ParseSymbols(symbolBuffer, pointer, end, symbols) ==
  IF ~Lt(pointer, end) THEN Returned(symbols)
  ELSE
    LET typeByte == At(symbolBuffer, pointer)
        p == pointer + 1
        int4 == Subarray(symbolBuffer, p, p + 4)
        dbl8 == Subarray(symbolBuffer, p, p + 8)
    IN CASE typeByte = 1 ->
              \* readIntLE(0, byteData.length) throws for a length of 0
              IF Len(int4) = 0 THEN Threw("RangeError")
              ELSE ParseSymbols(symbolBuffer, p + 3 + 1, end,
                     Append(symbols, fromIntValue(JsInt(ReadIntLE(int4)))))
         [] typeByte = 2 ->
              \* readDoubleLE(0) throws when fewer than 8 bytes are left
              IF Len(dbl8) < 8 THEN Threw("RangeError")
              ELSE ParseSymbols(symbolBuffer, p + 7 + 1, end,
                     Append(symbols, fromDoublValue(JsDouble(dbl8))))
         [] typeByte = 4 ->
              LET str == ReadString(symbolBuffer, p, <<>>)
              IN IF str.kind # "value" THEN str
                 ELSE ParseSymbols(symbolBuffer, str.val.pointer + 1, end,
                        Append(symbols, fromStringValue(str.val.value)))
         [] typeByte = 5 ->
              IF Len(int4) = 0 THEN Threw("RangeError")
              ELSE LET str == ReadString(symbolBuffer, p + 4, <<>>)
                   IN IF str.kind # "value" THEN str
                      ELSE ParseSymbols(symbolBuffer, str.val.pointer + 1, end,
                             Append(symbols,
                               fromDualIntValue(JsInt(ReadIntLE(int4)), str.val.value)))
         [] typeByte = 6 ->
              IF Len(dbl8) < 8 THEN Threw("RangeError")
              ELSE LET str == ReadString(symbolBuffer, p + 8, <<>>)
                   IN IF str.kind # "value" THEN str
                      ELSE ParseSymbols(symbolBuffer, str.val.pointer + 1, end,
                             Append(symbols,
                               fromDualDoubleValue(JsDouble(dbl8), str.val.value)))
         [] OTHER ->
              \* default: a known byte throws 'Unknown data type'; undefined
              \* (a read outside symbolBuffer) has no toString
              IF typeByte = -1 THEN Threw("TypeError")
              ELSE Threw("Error: Unknown data type")

\* fields.map(...): the symbol lists of all fields, or what the first field
\* that does not decode threw.  `fields` that is no array has no map.
SymbolTableResult(hdr, buf, symOffset, idxOffset) ==
  LET fields == hdr.QvdFieldHeader
      symbolBuffer == Subarray(buf.bytes, symOffset, idxOffset)
      res == [f \in 1..Len(fields.items) |->
                LET symbolsOffset == parseInt(fields.items[f].Offset)
                    symbolsLength == parseInt(fields.items[f].Length)
                IN ParseSymbols(symbolBuffer, symbolsOffset,
                                Plus(symbolsOffset, symbolsLength), <<>>)]
      bad == {f \in 1..Len(fields.items) : res[f].kind # "value"}
  IN IF fields.kind # "array" THEN Threw("TypeError")
     ELSE IF bad # {} THEN res[CHOOSE f \in bad : \A g \in bad : f <= g]
     ELSE Returned([f \in 1..Len(fields.items) |-> res[f].val])

-----------------------------------------------------------------------------
(* _parseIndexTable *)

\* ('00000000' + byte.toString(2)).slice(-8): eight binary digits, the most
\* significant first.
ToBinary8(byte) == [i \in 1..8 |-> (byte \div Pow(2, 8 - i)) % 2]

\* bytes.reduce((bits, byte) => bits + <the eight digits of byte>, '')
RECURSIVE ConcatBits(_)
ConcatBits(bytes) ==
  IF bytes = <<>> THEN <<>> ELSE ToBinary8(Head(bytes)) \o ConcatBits(Tail(bytes))

\* A slip of the mask: bytes.reverse() is left out.
MaskNoByteReverse(bytes) == Reverse(ConcatBits(bytes))

\* bytes.reverse(), the digit string, .split('').reverse().map(parseInt)
Mask(bytes) == Reverse(ConcatBits(Reverse(bytes)))

RECURSIVE SumBits(_, _)
SumBits(bits, index) ==
  IF index > Len(bits) THEN 0
  ELSE bits[index] * Pow(2, index - 1) + SumBits(bits, index + 1)

_convertBitsToInt32(bits) == IF Len(bits) = 0 THEN 0 ELSE SumBits(bits, 1)

\* A slip of the index decoder: the bias is added only to extracted bits.
SymbolIndexNoBiasAtWidth0(mask, field) ==
  LET bitOffset == parseInt(field.BitOffset)
      bitWidth == parseInt(field.BitWidth)
      bias == parseInt(field.Bias)
  IN IF bitWidth = 0 THEN 0
     ELSE Plus(_convertBitsToInt32(
                 Subarray(mask, bitOffset, Plus(bitOffset, bitWidth))), bias)

\* The body of fields.forEach for one field and one record's mask.
SymbolIndex(mask, field) ==
  LET bitOffset == parseInt(field.BitOffset)
      bitWidth == parseInt(field.BitWidth)
      bias == parseInt(field.Bias)
  IN Plus(IF bitWidth = 0 THEN 0
          ELSE _convertBitsToInt32(
                 Subarray(mask, bitOffset, Plus(bitOffset, bitWidth))),
          bias)

\* The for loop over the index buffer, from `pointer`, in steps of recordSize.
\* A recordSize of NaN makes the pointer NaN after the first record, and the
\* loop ends there.
RECURSIVE ParseRecords(_, _, _, _)
ParseRecords(indexBuffer, pointer, recordSize, fields) ==
  IF ~Lt(pointer, Len(indexBuffer)) THEN <<>>
  ELSE LET mask == Mask(Subarray(indexBuffer, pointer, Plus(pointer, recordSize)))
       IN <<[f \in 1..Len(fields) |-> SymbolIndex(mask, fields[f])]>>
          \o ParseRecords(indexBuffer, Plus(pointer, recordSize), recordSize, fields)

\* A recordSize of 0 or less never takes the pointer to the end of a buffer
\* that is not empty.
IndexTableResult(hdr, buf, idxOffset) ==
  LET fields == hdr.QvdFieldHeader
      recordSize == parseInt(hdr.RecordByteSize)
      indexBuffer == Subarray(buf.bytes, idxOffset,
                              Plus(Plus(idxOffset, parseInt(hdr.Length)), 1))
  IN IF fields.kind # "array" THEN Threw("TypeError")
     ELSE IF recordSize # NaN /\ recordSize <= 0 /\ Len(indexBuffer) > 0 THEN Hangs
     ELSE Returned(ParseRecords(indexBuffer, 0, recordSize, fields.items))

-----------------------------------------------------------------------------
(* The accessors of QvdFile, as functions of the object's state *)

NotLoaded == Threw("Error: QVD data was not loaded already")

\* A slip of _requireLoading: the header is tested, not the flag.
_requireLoadingOfHeader == header # Null

\* _requireLoading() returns (TRUE) or throws (FALSE).
_requireLoading == loaded

\* header.QvdTableHeader.Fields.QvdFieldHeader.map(field => field.FieldName)
fieldNames ==
  IF ~_requireLoading THEN NotLoaded
  ELSE IF header.QvdFieldHeader.kind # "array" THEN Threw("TypeError")
  ELSE Returned([f \in 1..Len(header.QvdFieldHeader.items) |->
                   header.QvdFieldHeader.items[f].FieldName])

\* A slip of numberOfRows: the records of the index table are counted.
numberOfRowsOfIndexTable ==
  IF ~_requireLoading THEN NotLoaded ELSE Returned(Len(indexTable))

numberOfRows ==
  IF ~_requireLoading THEN NotLoaded ELSE Returned(parseInt(header.NoOfRecords))

\* A slip of the cell read: column.at(symbolIndex), which counts a negative
\* position from the end of the list.
CellAt(fieldIndex, symbolIndex) ==
  LET column == symbolTable[fieldIndex]
      position == IF symbolIndex < 0 /\ symbolIndex # NaN
                    THEN Len(column) + symbolIndex ELSE symbolIndex
  IN IF position >= 0 /\ position < Len(column)
       THEN toPrimaryValue(column[position + 1])
       ELSE Undefined

\* this._symbolTable[fieldIndex][symbolIndex]?.toPrimaryValue(): a position
\* outside the field's symbol list (NaN is one) reads undefined, and ?. keeps
\* it undefined.
Cell(fieldIndex, symbolIndex) ==
  LET column == symbolTable[fieldIndex]
  IN IF symbolIndex >= 0 /\ symbolIndex < Len(column)
       THEN toPrimaryValue(column[symbolIndex + 1])
       ELSE Undefined

\* getRow(index).  this._indexTable[index] is undefined for an index that is
\* negative or not below the table's length, and undefined has no map; so has
\* this._symbolTable[fieldIndex] no element when the record has more entries
\* than the symbol table has columns.
getRow(index) ==
  IF ~_requireLoading THEN NotLoaded
  ELSE IF Ge(index, numberOfRows.val) THEN Threw("Error: Index is out of bounds")
  ELSE IF index < 0 \/ index >= Len(indexTable) THEN Threw("TypeError")
  ELSE IF Len(indexTable[index + 1]) > Len(symbolTable) THEN Threw("TypeError")
  ELSE Returned([f \in 1..Len(indexTable[index + 1]) |->
                   Cell(f, indexTable[index + 1][f])])

\* getTable(): the rows 0 .. numberOfRows-1 in order, then the columns; the
\* first call that throws ends it.  `index < NaN` is false: no row at all.
getTable ==
  IF ~_requireLoading THEN NotLoaded
  ELSE LET n == Max(ToIntegerOrInfinity(numberOfRows.val), 0)
           rows == [i \in 1..n |-> getRow(i - 1)]
           bad == {i \in 1..n : rows[i].kind # "value"}
       IN IF bad # {} THEN rows[CHOOSE i \in bad : \A j \in bad : i <= j]
          ELSE IF fieldNames.kind # "value" THEN fieldNames
          ELSE Returned([columns |-> fieldNames.val,
                         data |-> [i \in 1..n |-> rows[i].val]])

-----------------------------------------------------------------------------
(* Input files *)

\* The four bytes of a 32-bit two's complement integer, little-endian.
LE4(n) ==
  <<n % 256, (n \div 256) % 256, (n \div 65536) % 256, (n \div 16777216) % 256>>

EncInt(n) == <<1>> \o LE4(n)

EncDouble(d) == <<2>> \o d

EncString(str) == <<4>> \o str \o <<0>>

EncDualInt(n, str) == <<5>> \o LE4(n) \o str \o <<0>>

EncDualDouble(d, str) == <<6>> \o d \o str \o <<0>>

\* 3.141592653589793 as a little-endian double
DoublePi == <<24, 45, 68, 84, 251, 33, 9, 64>>

Str10 == <<49, 48>>

Str20 == <<50, 48>>

StrHi == <<72, 105>>

\* The decimal digits of n >= 0, as character codes.
RECURSIVE Digits(_)
Digits(n) == IF n < 10 THEN <<48 + n>> ELSE Append(Digits(n \div 10), 48 + (n % 10))

\* The text of an element that holds the integer n.
Text(n) == JsString(IF n < 0 THEN <<45>> \o Digits(0 - n) ELSE Digits(n))

Field(name, offset, length, bitOffset, bitWidth, bias) ==
  [FieldName |-> name, Offset |-> Text(offset), Length |-> Text(length),
   BitOffset |-> Text(bitOffset), BitWidth |-> Text(bitWidth), Bias |-> Text(bias)]

Xml(noOfRecords, recordByteSize, offset, length, fields) ==
  [NoOfRecords |-> Text(noOfRecords), RecordByteSize |-> Text(recordByteSize),
   Offset |-> Text(offset), Length |-> Text(length), Fields |-> fields]

\* The text of the XML header: "<?xml>" stands for the document `xml`.
HeaderText == <<60, 63, 120, 109, 108, 62>>

File(xml, delimited, body) ==
  [xml |-> xml,
   bytes |-> HeaderText \o (IF delimited THEN HEADER_DELIMITER ELSE <<>>) \o body]

\* Field A: the dual symbols 10/"10" and 20/"20"; field B: "Hi" and 7.
SymA == EncDualInt(10, Str10) \o EncDualInt(20, Str20)

SymB == EncString(StrHi) \o EncInt(7)

FieldA == Field("A", 0, Len(SymA), 0, 1, 0)

FieldB == Field("B", Len(SymA), Len(SymB), 1, 1, 0)

\* Two fields, records of one byte: row 0 is A[0], B[1] and row 1 is A[1], B[0].
TwoFields(noOfRecords, length, index) ==
  File(Xml(noOfRecords, 1, Len(SymA) + Len(SymB), length, <<FieldA, FieldB>>),
       TRUE, SymA \o SymB \o index)

GoodFile == TwoFields(2, 2, <<2, 1>>)

\* The same bytes without CR LF NUL anywhere.
NoDelimiterFile == [GoodFile EXCEPT !.bytes = HeaderText \o SymA \o SymB \o <<2, 1>>]

\* One field, two rows, index bytes 0x00 and 0x01.
OneFieldFile ==
  File(Xml(2, 1, Len(SymA), 2, <<FieldA>>), TRUE, SymA \o <<0, 1>>)

NoFieldFile == File(Xml(0, 1, 0, 0, <<>>), TRUE, <<>>)

\* Field B starts with the unknown tag 0x03; field A before it decodes.
BadTagFile ==
  File(Xml(2, 1, Len(SymA) + 5, 2,
           <<Field("X", 0, Len(SymA), 0, 1, 0), Field("Y", Len(SymA), 5, 1, 1, 0)>>),
       TRUE, SymA \o <<3, 7, 0, 0, 0>> \o <<2, 1>>)

\* Three records declared, two in the index section.
FewRecordsFile == TwoFields(3, 2, <<2, 1>>)

\* One record declared, two in the index section.
ManyRecordsFile == TwoFields(1, 2, <<2, 1>>)

\* A byte follows the index section.
TrailingByteFile == TwoFields(2, 2, <<2, 1, 3>>)

\* Field A is declared four bytes shorter than its two symbols.
OverrunFile ==
  File(Xml(2, 1, Len(SymA) + Len(SymB), 2,
           <<Field("A", 0, Len(SymA) - 4, 0, 1, 0), FieldB>>),
       TRUE, SymA \o SymB \o <<2, 1>>)

\* Field B has BitWidth 0 and Bias 1; field A has Bias -2.
BiasFile ==
  File(Xml(2, 1, Len(SymA) + Len(SymB), 2,
           <<Field("A", 0, Len(SymA), 0, 1, -2), Field("B", Len(SymA), Len(SymB), 0, 0, 1)>>),
       TRUE, SymA \o SymB \o <<0, 3>>)

\* The string of field B has no 0 byte before the end of the symbol section.
UnterminatedFile ==
  File(Xml(1, 1, Len(SymA) + 3, 1,
           <<FieldA, Field("B", Len(SymA), 3, 1, 1, 0)>>),
       TRUE, SymA \o <<4, 72, 105>> \o <<1>>)

\* Field B holds one symbol, the bytes `symbol`; one record follows.
StringFile(symbol) ==
  File(Xml(1, 1, Len(SymA) + Len(symbol), 1,
           <<FieldA, Field("B", Len(SymA), Len(symbol), 1, 1, 0)>>),
       TRUE, SymA \o symbol \o <<1>>)

\* A symbol of each tag that holds a string, "Hi", with its 0 byte.
StringSymbols == {EncString(StrHi), EncDualInt(10, StrHi), EncDualDouble(DoublePi, StrHi)}

\* The same symbols without the 0 byte.
Unterminated(symbol) == SubSeq(symbol, 1, Len(symbol) - 1)

\* The good file with RecordByteSize 0.
ZeroRecordSizeFile == [GoodFile EXCEPT !.xml.RecordByteSize = Text(0)]

\* Files whose strings end or do not end, and whose records have a size or none.
TerminationFiles ==
  {StringFile(symbol) : symbol \in StringSymbols}
    \cup {StringFile(Unterminated(symbol)) : symbol \in StringSymbols}
    \cup {GoodFile, ZeroRecordSizeFile}

\* A path that fs.promises.open rejects (no such file), and one whose
\* descriptor fs.promises.readFile rejects (a directory).
MissingFile == [error |-> "ENOENT"]

DirectoryFile == [error |-> "EISDIR"]

Files ==
  {GoodFile, NoDelimiterFile, OneFieldFile, NoFieldFile, BadTagFile, FewRecordsFile,
   ManyRecordsFile, TrailingByteFile, OverrunFile, BiasFile, UnterminatedFile}

\* What may be at the path when it cannot always be read.
ReadFiles == {GoodFile, BiasFile, BadTagFile, MissingFile, DirectoryFile}

\* The bytes of one symbol: the tag of the components it has, then these.
EncodeSymbol(symbol) ==
  LET int == NotNullish(symbol.intValue)
      double == NotNullish(symbol.doubleValue)
      string == NotNullish(symbol.stringValue)
  IN CASE int /\ ~double /\ ~string -> EncInt(symbol.intValue.v)
       [] ~int /\ double /\ ~string -> EncDouble(symbol.doubleValue.v)
       [] ~int /\ ~double /\ string -> EncString(symbol.stringValue.v)
       [] int /\ ~double /\ string ->
            EncDualInt(symbol.intValue.v, symbol.stringValue.v)
       [] ~int /\ double /\ string ->
            EncDualDouble(symbol.doubleValue.v, symbol.stringValue.v)
       [] OTHER -> <<>>

RECURSIVE EncodeSymbols(_)
EncodeSymbols(symbols) ==
  IF symbols = <<>> THEN <<>>
  ELSE EncodeSymbol(Head(symbols)) \o EncodeSymbols(Tail(symbols))

\* One symbol of each tag, and two more strings: 7, pi, "", "Hi", CR LF,
\* -2/"10", pi/"20".  The bytes of the string CR LF end with CR LF NUL.
SymbolSamples ==
  {fromIntValue(JsInt(7)), fromDoublValue(JsDouble(DoublePi)),
   fromStringValue(JsString(<<>>)), fromStringValue(JsString(StrHi)),
   fromStringValue(JsString(<<13, 10>>)),
   fromDualIntValue(JsInt(-2), JsString(Str10)),
   fromDualDoubleValue(JsDouble(DoublePi), JsString(Str20))}

\* Field A holds up to MaxSymbols symbols.
MaxSymbols == 2

\* One record; field A holds `symbols`, field B is the one of GoodFile.
SymbolFile(symbols) ==
  LET symA == EncodeSymbols(symbols)
  IN File(Xml(1, 1, Len(symA) + Len(SymB), 1,
              <<Field("A", 0, Len(symA), 0, 1, 0),
                Field("B", Len(symA), Len(SymB), 1, 1, 0)>>),
          TRUE, symA \o SymB \o <<0>>)

SymbolFiles ==
  UNION {{SymbolFile(symbols) : symbols \in [1..n -> SymbolSamples]} : n \in 0..MaxSymbols}

\* The numeric elements of the table header and of a field header.
TableAttributes == {"Offset", "Length", "RecordByteSize", "NoOfRecords"}

FieldAttributes == {"Offset", "Length", "BitOffset", "BitWidth", "Bias"}

\* What a numeric element holds when it is no base-10 integer: nothing (the
\* element is missing), "", "abc" and "1x".
BadTexts == {Undefined, JsString(<<>>), JsString(<<97, 98, 99>>), JsString(<<49, 120>>)}

\* GoodFile with one numeric element of the table header, or of one of its
\* two field headers, replaced by a text of BadTexts.
AttributeFiles ==
  {[GoodFile EXCEPT !.xml[a] = text] : a \in TableAttributes, text \in BadTexts}
  \cup {[GoodFile EXCEPT !.xml.Fields[f][a] = text] :
          f \in {1, 2}, a \in FieldAttributes, text \in BadTexts}

\* Index records of 1 .. MaxRecordByteSize bytes, and bit widths 0 .. MaxBitWidth.
MaxRecordByteSize == 2

MaxBitWidth == 3

\* 0x01 and 0xA6 = 10100110
ByteSamples == {1, 166}

BiasSamples == {-2, 0, 1}

\* One record of recordBytes; field A is laid out by (bitOffset, bitWidth,
\* bias), field B takes bits 1 and 2.
BitFile(recordBytes, bitOffset, bitWidth, bias) ==
  File(Xml(1, Len(recordBytes), Len(SymA) + Len(SymB), Len(recordBytes),
           <<Field("A", 0, Len(SymA), bitOffset, bitWidth, bias),
             Field("B", Len(SymA), Len(SymB), 1, 2, 0)>>),
       TRUE, SymA \o SymB \o recordBytes)

BitFiles ==
  UNION {{BitFile(recordBytes, bitOffset, bitWidth, bias) :
            recordBytes \in [1..size -> ByteSamples],
            bitOffset \in 0..(8 * size),
            bitWidth \in 0..MaxBitWidth,
            bias \in BiasSamples} :
         size \in 1..MaxRecordByteSize}

\* Values given to the constructor of QvdValue.
QvdValues ==
  {QvdValue(i, d, str) :
     i \in {Null, Undefined, JsInt(0)},
     d \in {Null, JsDouble(DoublePi)},
     str \in {Null, Undefined, JsString(<<>>), JsString(Str10)}}

\* The largest row index asked of getRow; the smallest is -1.
MaxIndex == 3

-----------------------------------------------------------------------------
(* The object: new QvdFile(path), load() and the accessor calls *)

NoCall == [op |-> "none", arg |-> Undefined, res |-> Returned(Undefined)]

\* At most MaxJobs calls of parseFile are made.
MaxJobs == 2

\* The worker ids `file-${randomUUID()}`: each call draws one nobody has.
WorkerIds == 1..MaxJobs

\* A promise: pending, resolved with a value, or rejected with a reason.
Pending == [state |-> "pending"]

Resolved(value) == [state |-> "resolved", value |-> value]

Rejected(reason) == [state |-> "rejected", value |-> reason]

\* The promise is resolved or rejected.
Settled(promise) == promise.state \in {"resolved", "rejected"}

\* No parseFile call was made yet.
NoJobs ==
  /\ workers = [w \in WorkerIds |-> "none"]
  /\ messages = {}
  /\ registeredWorkers = {}
  /\ joins = [w \in WorkerIds |-> [state |-> "none"]]
  /\ promises = [w \in WorkerIds |-> [state |-> "none"]]

\* The static field of WorkerHost before main.js has run.
NoInstance ==
  /\ _instance = Undefined
  /\ objects = 0
  /\ last = [op |-> "none", arg |-> Undefined, res |-> Returned(Undefined)]

\* A handler call that was not made yet.
NotCalled ==
  [op |-> "none", path |-> Undefined, pc |-> "none", fn |-> "none",
   recentFiles |-> <<>>, sent |-> <<>>, result |-> [state |-> "none"]]

\* handlers/file as it is loaded: no file is open and no handler runs; the
\* list of recent files does not exist yet.
NoCalls ==
  /\ currentFile = Null
  /\ calls = [c \in WorkerIds |-> NotCalled]
  /\ recentFilesJson = [exists |-> FALSE, list |-> <<>>]
  /\ existingPaths = {}
  /\ recentFilesChanged = [state |-> "none"]

\* The fields of a QvdFile the constructor has made.  A null table is the
\* empty sequence.
NewQvdFile ==
  /\ buffer = Null
  /\ symbolTableOffset = -1
  /\ indexTableOffset = -1
  /\ header = Null
  /\ symbolTable = <<>>
  /\ indexTable = <<>>
  /\ loaded = FALSE
  /\ pc = "idle"
  /\ outcome = "none"
  /\ ret = NoCall

\* No DataTable is rendered.
NoTable ==
  /\ table = [columns |-> <<>>, data |-> <<>>]
  /\ filter = <<>>
  /\ sort = <<>>
  /\ preparedTable = <<>>
  /\ cellContext = Null
  /\ cellContextMenuCoordinates = Null

\* No message is on its way between the window and the main process.
NoMessages == toMain = <<>> /\ toWindow = <<>>

\* The screen Editor is not mounted.
NoEditor == listening = FALSE /\ files = <<>> /\ recentFiles = <<>> /\ NoMessages

\* The main process as it starts, before a window shows a file.
NoProcess == NoJobs /\ NoInstance /\ NoCalls

\* The program as it starts, with the QvdFile the constructor has made.
InitObject ==
  /\ NoProcess
  /\ NoTable
  /\ NoEditor
  /\ NewQvdFile

Init == disk \in Files /\ InitObject

\* The file at the path is replaced.  Only _readData reads it, so it is enough
\* to let it change between two loads.
ReplaceFile ==
  /\ pc = "idle"
  /\ \E f \in Files \ {disk} : disk' = f
  /\ UNCHANGED <<buffer, symbolTableOffset, indexTableOffset, header,
                 symbolTable, indexTable, loaded, pc, outcome, ret>>
  /\ UNCHANGED notFileVars

\* load() is called: it runs up to the first await, inside _readData.
load ==
  /\ pc = "idle"
  /\ pc' = "read"
  /\ outcome' = "pending"
  /\ UNCHANGED <<disk, buffer, symbolTableOffset, indexTableOffset, header,
                 symbolTable, indexTable, loaded, ret>>
  /\ UNCHANGED notFileVars

\* A slip of the failing read: the object is taken back to not loaded.
_readDataUnloads ==
  /\ pc = "read"
  /\ IF "error" \in DOMAIN disk
       THEN pc' = "idle" /\ outcome' = disk.error /\ loaded' = FALSE /\ UNCHANGED buffer
       ELSE buffer' = disk /\ pc' = "header" /\ UNCHANGED <<outcome, loaded>>
  /\ UNCHANGED <<disk, symbolTableOffset, indexTableOffset, header,
                 symbolTable, indexTable, ret>>
  /\ UNCHANGED notFileVars

\* open() or readFile() rejects, and with it _readData and load(), before
\* this._buffer is assigned; else the buffer is the content of the file.
_readData ==
  /\ pc = "read"
  /\ IF "error" \in DOMAIN disk
       THEN pc' = "idle" /\ outcome' = disk.error /\ UNCHANGED buffer
       ELSE buffer' = disk /\ pc' = "header" /\ UNCHANGED outcome
  /\ UNCHANGED <<disk, symbolTableOffset, indexTableOffset, header,
                 symbolTable, indexTable, loaded, ret>>
  /\ UNCHANGED notFileVars

_parseHeader ==
  /\ pc = "header"
  /\ LET r == HeaderResult(buffer)
     IN IF r.kind = "value"
          THEN /\ header' = r.val.header
               /\ symbolTableOffset' = r.val.symbolTableOffset
               /\ indexTableOffset' = r.val.indexTableOffset
               /\ pc' = "symbols"
               /\ UNCHANGED outcome
          ELSE /\ pc' = "idle"
               /\ outcome' = r.err
               /\ UNCHANGED <<header, symbolTableOffset, indexTableOffset>>
  /\ UNCHANGED <<disk, buffer, symbolTable, indexTable, loaded, ret>>
  /\ UNCHANGED notFileVars

_parseSymbolTable ==
  /\ pc = "symbols"
  /\ LET r == SymbolTableResult(header, buffer, symbolTableOffset, indexTableOffset)
     IN IF r.kind = "value"
          THEN symbolTable' = r.val /\ pc' = "index" /\ UNCHANGED outcome
          ELSE IF r.kind = "error"
          THEN pc' = "idle" /\ outcome' = r.err /\ UNCHANGED symbolTable
          ELSE pc' = "hung" /\ UNCHANGED <<outcome, symbolTable>>
  /\ UNCHANGED <<disk, buffer, symbolTableOffset, indexTableOffset, header,
                 indexTable, loaded, ret>>
  /\ UNCHANGED notFileVars

_parseIndexTable ==
  /\ pc = "index"
  /\ LET r == IndexTableResult(header, buffer, indexTableOffset)
     IN IF r.kind = "value"
          THEN indexTable' = r.val /\ pc' = "return" /\ UNCHANGED outcome
          ELSE IF r.kind = "error"
          THEN pc' = "idle" /\ outcome' = r.err /\ UNCHANGED indexTable
          ELSE pc' = "hung" /\ UNCHANGED <<outcome, indexTable>>
  /\ UNCHANGED <<disk, buffer, symbolTableOffset, indexTableOffset, header,
                 symbolTable, loaded, ret>>
  /\ UNCHANGED notFileVars

\* The last statement of load(): this._loaded = true.
loadReturn ==
  /\ pc = "return"
  /\ loaded' = TRUE
  /\ pc' = "idle"
  /\ outcome' = "resolved"
  /\ UNCHANGED <<disk, buffer, symbolTableOffset, indexTableOffset, header,
                 symbolTable, indexTable, ret>>
  /\ UNCHANGED notFileVars

\* An accessor is called from other code of the same thread: between the
\* steps of a load, but not while a decoding loop never returns.
Call(op, arg, res) ==
  /\ pc # "hung"
  /\ ret' = [op |-> op, arg |-> arg, res |-> res]
  /\ UNCHANGED <<disk, buffer, symbolTableOffset, indexTableOffset, header,
                 symbolTable, indexTable, loaded, pc, outcome>>
  /\ UNCHANGED notFileVars

CallFieldNames == Call("fieldNames", Undefined, fieldNames)

CallNumberOfRows == Call("numberOfRows", Undefined, numberOfRows)

CallGetRow == \E index \in -1..MaxIndex : Call("getRow", JsInt(index), getRow(index))

CallGetTable == Call("getTable", Undefined, getTable)

\* new QvdValue(intValue, doubleValue, stringValue).toPrimaryValue()
CallToPrimaryValue ==
  \E value \in QvdValues : Call("toPrimaryValue", value, Returned(toPrimaryValue(value)))

Next ==
  \/ ReplaceFile
  \/ load
  \/ _readData
  \/ _parseHeader
  \/ _parseSymbolTable
  \/ _parseIndexTable
  \/ loadReturn
  \/ CallFieldNames
  \/ CallNumberOfRows
  \/ CallGetRow
  \/ CallGetTable
  \/ CallToPrimaryValue

Spec == Init /\ [][Next]_vars

\* Decoding alone: one file out of BitFiles is loaded once, by a caller that
\* awaits load() before it uses the object.
InitDecode == disk \in BitFiles /\ InitObject

NextDecode ==
  \/ (outcome = "none" /\ load)
  \/ _readData
  \/ _parseHeader
  \/ _parseSymbolTable
  \/ _parseIndexTable
  \/ loadReturn
  \/ (pc = "idle" /\ CallNumberOfRows)
  \/ (pc = "idle" /\ CallGetRow)

SpecDecode == InitDecode /\ [][NextDecode]_vars

\* The file at the path is replaced, removed or made a directory.
ReplaceReadFile ==
  /\ pc = "idle"
  /\ \E f \in ReadFiles \ {disk} : disk' = f
  /\ UNCHANGED <<buffer, symbolTableOffset, indexTableOffset, header,
                 symbolTable, indexTable, loaded, pc, outcome, ret>>
  /\ UNCHANGED notFileVars

\* Loads and reloads of a path that cannot always be read.
InitRead == disk \in ReadFiles /\ InitObject

NextRead ==
  \/ ReplaceReadFile
  \/ load
  \/ _readData
  \/ _parseHeader
  \/ _parseSymbolTable
  \/ _parseIndexTable
  \/ loadReturn
  \/ CallFieldNames
  \/ CallNumberOfRows
  \/ CallGetRow
  \/ CallGetTable

SpecRead == InitRead /\ [][NextRead]_vars

\* The same caller with a file out of TerminationFiles.
InitTermination == disk \in TerminationFiles /\ InitObject

SpecTermination == InitTermination /\ [][NextDecode]_vars

\* The same caller with a file out of SymbolFiles.
InitSymbols == disk \in SymbolFiles /\ InitObject

SpecSymbols == InitSymbols /\ [][NextDecode]_vars

\* The same caller with a file out of AttributeFiles.
InitAttributes == disk \in AttributeFiles /\ InitObject

SpecAttributes == InitAttributes /\ [][NextDecode]_vars

-----------------------------------------------------------------------------
(* parseFile, the worker process and QvdFileDeserializer *)

\* A JavaScript object of a class, with its own properties.
Object(class, properties) == [t |-> "object", class |-> class, v |-> properties]

Array(elements) == [t |-> "array", v |-> elements]

\* object[name]: undefined for a property the value does not have; a string
\* has no property of the names read here.
Get(object, name) ==
  IF object.t = "object" /\ name \in DOMAIN object.v THEN object.v[name] ELSE Undefined

\* new QvdSymbol(intValue, doubleValue, stringValue) of qvd4js
QvdSymbol(intValue, doubleValue, stringValue) ==
  Object("QvdSymbol", [_intValue |-> intValue, _doubleValue |-> doubleValue,
                       _stringValue |-> stringValue])

\* QvdFileDeserializer.deserialize(object).  map is called on
\* object._symbolTable and on each of its elements: a value without that
\* property, or with one that is no array, makes the call throw.
deserialize(object) ==
  LET _symbolTable == Get(object, "_symbolTable")
  IN IF _symbolTable.t # "array" THEN Threw("TypeError")
     ELSE IF \E c \in 1..Len(_symbolTable.v) : _symbolTable.v[c].t # "array" THEN Threw("TypeError")
     ELSE Returned(Object("QvdFile",
            [_path |-> Get(object, "_path"),
             _header |-> Get(object, "_header"),
             _symbolTable |->
               Array([c \in 1..Len(_symbolTable.v) |->
                 Array([i \in 1..Len(_symbolTable.v[c].v) |->
                   QvdSymbol(Get(_symbolTable.v[c].v[i], "_intValue"),
                             Get(_symbolTable.v[c].v[i], "_doubleValue"),
                             Get(_symbolTable.v[c].v[i], "_stringValue"))])]),
             _indexTable |-> Get(object, "_indexTable")]))

\* The table QvdDataFrame.fromQvd(filePath) of qvd4js gives for a file of the
\* columns A, B and the rows ["10", 7], ["20", "Hi"].
DataFrame ==
  Object("QvdDataFrame",
         [_columns |-> Array(<<JsString(<<65>>), JsString(<<66>>)>>),
          _data |-> Array(<<Array(<<JsString(Str10), JsInt(7)>>),
                            Array(<<JsString(Str20), JsString(StrHi)>>)>>)])

\* What QvdDataFrame.fromQvd(filePath) throws for a file it cannot decode.
LoadError == [t |-> "error", message |-> "Error"]

\* ESSerializer.serialize(value): a string; json stands for its text, the
\* JSON of the value with the names of its classes.
serialize(value) == [t |-> "string", json |-> value]

\* A message payload as the host receives it: node-ipc sends the JSON of the
\* message, in which a string is itself and an Error, which has no enumerable
\* property, is the empty object.
Transfer(payload) == IF payload.t = "error" THEN Object("Object", <<>>) ELSE payload

\* A slip of the listener test: the sender is not looked at.
ListensToAnyWorker(type, worker, data) == data.type = type

\* The test of the listener WorkerHost.on(type, callback, worker) registers,
\* for a worker that is given.
ListensTo(type, worker, data) == data.type = type /\ worker = data.from

\* parseFile(filePath): a worker id is drawn, the worker is forked, and the
\* listeners for its 'error' and 'done' messages are registered.
parseFileCalled(workerId) ==
  /\ workers[workerId] = "none"
  /\ workers' = [workers EXCEPT ![workerId] = "forked"]
  /\ joins' = [joins EXCEPT ![workerId] = Pending]
  /\ promises' = [promises EXCEPT ![workerId] = Pending]
  /\ UNCHANGED <<messages, registeredWorkers>>

\* parseFile(filePath), called for itself.
parseFile(workerId) ==
  /\ parseFileCalled(workerId)
  /\ UNCHANGED notHostVars

\* The worker: connect('HOST') finds the host, and emits 'worker_register'.
connect(clientId) ==
  /\ workers[clientId] = "forked"
  /\ workers' = [workers EXCEPT ![clientId] = "connected"]
  /\ messages' = messages \cup
       {[from |-> clientId, type |-> "worker_register",
         payload |-> [t |-> "workerId", v |-> clientId]]}
  /\ UNCHANGED <<registeredWorkers, joins, promises>>
  /\ UNCHANGED notHostVars

\* The worker: the file was loaded, and the serialized table is emitted.
emitDone(clientId) ==
  /\ workers[clientId] = "connected"
  /\ workers' = [workers EXCEPT ![clientId] = "emitted"]
  /\ messages' = messages \cup
       {[from |-> clientId, type |-> "done", payload |-> Transfer(serialize(DataFrame))]}
  /\ UNCHANGED <<registeredWorkers, joins, promises>>
  /\ UNCHANGED notHostVars

\* The worker: loading threw, and the error is emitted.
emitError(clientId) ==
  /\ workers[clientId] = "connected"
  /\ workers' = [workers EXCEPT ![clientId] = "emitted"]
  /\ messages' = messages \cup
       {[from |-> clientId, type |-> "error", payload |-> Transfer(LoadError)]}
  /\ UNCHANGED <<registeredWorkers, joins, promises>>
  /\ UNCHANGED notHostVars

\* The worker process ends before it has emitted 'done' or 'error'.
exit(clientId) ==
  /\ workers[clientId] \in {"forked", "connected"}
  /\ workers' = [workers EXCEPT ![clientId] = "exited"]
  /\ UNCHANGED <<messages, registeredWorkers, joins, promises>>
  /\ UNCHANGED notHostVars

\* The host's 'socket.disconnected' listener, for the socket of a worker
\* that has ended.
onSocketDisconnected(id) ==
  /\ workers[id] \in {"exited", "killed"}
  /\ id \in registeredWorkers
  /\ registeredWorkers' = registeredWorkers \ {id}
  /\ UNCHANGED <<workers, messages, joins, promises>>
  /\ UNCHANGED notHostVars

\* The promise of join('done', workerId) after the listeners have seen data.
JoinAfter(workerId, data) ==
  IF joins[workerId] = Pending /\ ListensTo("done", workerId, data)
    THEN Resolved([payload |-> data.payload, from |-> data.from])
    ELSE joins[workerId]

\* The promise of parseFile after the listeners have seen data: the 'error'
\* listener rejects it; the callback of join(...).then resolves it with the
\* deserialized payload, and resolves nothing when deserialize throws.  A
\* promise that is settled stays as it is.
PromiseAfter(workerId, data) ==
  IF promises[workerId] # Pending THEN promises[workerId]
  ELSE IF ListensTo("error", workerId, data) THEN Rejected(data.payload)
  ELSE IF joins[workerId] = Pending /\ ListensTo("done", workerId, data)
            /\ deserialize(data.payload).kind = "value"
         THEN Resolved(deserialize(data.payload).val)
  ELSE promises[workerId]

\* The host receives a message: the 'message' listeners of the server run,
\* the one of start() and those parseFile has registered for every job; a
\* promise that is settled by it has its worker killed (finally).  The
\* messages of one worker arrive in the order they were sent.
onMessage(data) ==
  /\ data \in messages
  /\ data.type # "worker_register" =>
       \A other \in messages : ~(other.from = data.from /\ other.type = "worker_register")
  /\ messages' = messages \ {data}
  /\ registeredWorkers' =
       IF data.type = "worker_register"
         THEN registeredWorkers \cup {data.payload.v} ELSE registeredWorkers
  /\ joins' = [w \in WorkerIds |-> IF workers[w] = "none" THEN joins[w] ELSE JoinAfter(w, data)]
  /\ promises' =
       [w \in WorkerIds |-> IF workers[w] = "none" THEN promises[w] ELSE PromiseAfter(w, data)]
  /\ workers' =
       [w \in WorkerIds |->
          IF workers[w] # "none" /\ promises[w] = Pending /\ PromiseAfter(w, data) # Pending
            THEN "killed" ELSE workers[w]]
  /\ UNCHANGED notHostVars

InitHost == disk = GoodFile /\ InitObject

NextHost ==
  \/ \E workerId \in WorkerIds : parseFile(workerId)
  \/ \E clientId \in WorkerIds : connect(clientId)
  \/ \E clientId \in WorkerIds : emitDone(clientId)
  \/ \E clientId \in WorkerIds : emitError(clientId)
  \/ \E clientId \in WorkerIds : exit(clientId)
  \/ \E id \in WorkerIds : onSocketDisconnected(id)
  \/ \E data \in messages : onMessage(data)

SpecHost == InitHost /\ [][NextHost]_vars

-----------------------------------------------------------------------------
(* WorkerHost, the singleton *)

\* At most MaxObjects WorkerHost objects are allocated.
MaxObjects == 4

\* The default of the parameter retry.
DefaultRetry == 1500

\* The identifiers a caller passes: none, 'HOST', or another one.
HostIds == {Undefined, JsString(<<72, 79, 83, 84>>), JsString(<<88>>)}

\* The retry arguments a caller passes: none, or 100.
Retries == {Undefined, JsInt(100)}

\* this at the entry of the constructor: the object exists, with no field.
NewWorkerHost(ref) ==
  [t |-> "object", class |-> "WorkerHost", ref |-> ref,
   v |-> [_ipcModule |-> Undefined, _hostId |-> Undefined, _registeredWorkers |-> Undefined]]

\* this at the end of the constructor.
Constructed(this, id, retry) ==
  [this EXCEPT !.v =
     [_ipcModule |-> [t |-> "object", class |-> "IPCModule", id |-> id,
                      retry |-> IF retry = Undefined THEN JsInt(DefaultRetry) ELSE retry],
      _hostId |-> id,
      _registeredWorkers |-> Array(<<>>)]]

\* The constructor run on this: the value of WorkerHost._instance after it,
\* and the object it returned or the error it threw.  The object is
\* registered before its identifier is looked at.
WorkerHost(this, id, retry) ==
  IF _instance # Undefined
    THEN [instance |-> _instance, res |-> Threw("WorkerHost is a singleton")]
  ELSE IF id = Undefined
    THEN [instance |-> this, res |-> Threw("WorkerHost requires an identifier")]
  ELSE [instance |-> Constructed(this, id, retry),
        res |-> Returned(Constructed(this, id, retry))]

\* new WorkerHost(id, retry), called from anywhere.
construct(id, retry) ==
  /\ objects < MaxObjects
  /\ objects' = objects + 1
  /\ _instance' = WorkerHost(NewWorkerHost(objects + 1), id, retry).instance
  /\ last' = [op |-> "new WorkerHost", arg |-> id,
              res |-> WorkerHost(NewWorkerHost(objects + 1), id, retry).res]
  /\ UNCHANGED notMainVars

\* WorkerHost.getInstance(id, retry): an error of the constructor is the
\* error of the call.
getInstance(id, retry) ==
  /\ IF _instance = Undefined
       THEN /\ objects < MaxObjects
            /\ objects' = objects + 1
            /\ _instance' = WorkerHost(NewWorkerHost(objects + 1), id, retry).instance
            /\ last' = [op |-> "getInstance", arg |-> id,
                        res |-> WorkerHost(NewWorkerHost(objects + 1), id, retry).res]
       ELSE /\ last' = [op |-> "getInstance", arg |-> id, res |-> Returned(_instance)]
            /\ UNCHANGED <<_instance, objects>>
  /\ UNCHANGED notMainVars

InitSingleton == disk = GoodFile /\ InitObject

NextSingleton ==
  \/ \E id \in HostIds, retry \in Retries : construct(id, retry)
  \/ \E id \in HostIds, retry \in Retries : getInstance(id, retry)

SpecSingleton == InitSingleton /\ [][NextSingleton]_vars

-----------------------------------------------------------------------------
(* The handlers of handlers/file *)

\* The paths the user opens: 'a' and 'b'.
Paths == {JsString(<<97>>), JsString(<<98>>)}

\* recentFiles.add(filePath) on the Set made of the list: the order of the
\* list is kept and a path that is in it is not added again.
SetAdd(list, filePath) ==
  IF \E i \in 1..Len(list) : list[i] = filePath THEN list ELSE Append(list, filePath)

\* A slip of the deletion: the last path of the list is taken out.
SetDeleteLast(list, filePath) ==
  IF list = <<>> THEN list ELSE SubSeq(list, 1, Len(list) - 1)

\* recentFiles.delete(filePath)
SetDelete(list, filePath) ==
  LET Keep(i) == list[i] # filePath
      kept == {i \in 1..Len(list) : Keep(i)}
      Nth(n) == CHOOSE i \in kept : Cardinality({j \in kept : j < i}) = n - 1
  IN [n \in 1..Cardinality(kept) |-> list[Nth(n)]]

\* What addRecentFile or removeRecentFile makes of the list it has read.
Updated(fn, list, filePath) ==
  IF fn = "addRecentFile" THEN SetAdd(list, filePath) ELSE SetDelete(list, filePath)

\* addRecentFile(filePath) or removeRecentFile(filePath) up to its first
\* await: of readFile when recentFiles.json exists, and else of writeFile with
\* the list made of the empty Set.
RecentFileCalled(call, fn) ==
  IF recentFilesJson.exists
    THEN [call EXCEPT !.fn = fn, !.pc = "reading"]
    ELSE [call EXCEPT !.fn = fn, !.pc = "writing",
                      !.recentFiles = Updated(fn, <<>>, call.path)]

\* The call has sent the event to its window.
Send(call, event) == [call EXCEPT !.sent = Append(call.sent, event)]

\* The handler has returned the value.
Return(call, value) == [call EXCEPT !.pc = "done", !.result = Resolved(value)]

\* What the window gets of a step of call c: the events the call has sent in
\* it, each with the path of the call, and then the messages `more`.  A
\* message on a channel without listener is dropped.
Heard(c, more) ==
  LET before == Len(calls[c].sent)
      events == [i \in 1..(Len(calls'[c].sent) - before) |->
                   [channel |-> calls'[c].sent[before + i], args |-> calls'[c].path]]
  IN toWindow' = IF listening THEN toWindow \o events \o more ELSE toWindow

\* A file appears at a path.
CreatePath(filePath) ==
  /\ filePath \notin existingPaths
  /\ existingPaths' = existingPaths \cup {filePath}
  /\ UNCHANGED <<currentFile, recentFilesJson, calls, recentFilesChanged>>
  /\ UNCHANGED <<fileVars, hostVars, mainVars, rendererVars>>

\* openFile(webContents), up to the await of dialog.showOpenDialog.
openFile(c) ==
  /\ calls[c].pc = "none"
  /\ calls' = [calls EXCEPT ![c] = [@ EXCEPT !.op = "openFile", !.pc = "dialog"]]
  /\ UNCHANGED <<currentFile, recentFilesJson, existingPaths, recentFilesChanged>>
  /\ UNCHANGED <<fileVars, hostVars, mainVars, notToWindow>>
  /\ Heard(c, <<>>)

\* The dialog was cancelled: openFile returns null.
showOpenDialogCanceled(c) ==
  /\ calls[c].pc = "dialog"
  /\ calls' = [calls EXCEPT ![c] = Return(@, Null)]
  /\ UNCHANGED <<currentFile, recentFilesJson, existingPaths, recentFilesChanged>>
  /\ UNCHANGED <<fileVars, hostVars, mainVars, notToWindow>>
  /\ Heard(c, <<>>)

\* The dialog has returned a path: 'file:opening' is sent and parseFile is
\* called, up to the await of its promise.
showOpenDialogReturns(c, filePath) ==
  /\ calls[c].pc = "dialog"
  /\ parseFileCalled(c)
  /\ calls' = [calls EXCEPT ![c] =
       [Send(@, "file:opening") EXCEPT !.path = filePath, !.pc = "parsing"]]
  /\ UNCHANGED <<currentFile, recentFilesJson, existingPaths, recentFilesChanged>>
  /\ UNCHANGED <<fileVars, mainVars, notToWindow>>
  /\ Heard(c, <<>>)

\* openRecentFile(webContents, filePath) up to its first await: of
\* removeRecentFile when nothing is at the path, and else of parseFile.
openRecentFile(c, filePath) ==
  /\ calls[c].pc = "none"
  /\ LET call == [Send(calls[c], "file:opening") EXCEPT !.op = "openRecentFile",
                                                         !.path = filePath]
     IN IF filePath \notin existingPaths
          THEN /\ calls' = [calls EXCEPT ![c] =
                    RecentFileCalled(Send(call, "error:fileNotFound"), "removeRecentFile")]
               /\ UNCHANGED hostVars
          ELSE /\ parseFileCalled(c)
               /\ calls' = [calls EXCEPT ![c] = [call EXCEPT !.pc = "parsing"]]
  /\ UNCHANGED <<currentFile, recentFilesJson, existingPaths, recentFilesChanged>>
  /\ UNCHANGED <<fileVars, mainVars, notToWindow>>
  /\ Heard(c, <<>>)

\* The promise of parseFile is settled, in openFile or openRecentFile.  When
\* it is resolved the file becomes the current one, 'file:opened' is sent and
\* addRecentFile is called; when it is rejected 'error:parsingFileFailed' is
\* sent and null is returned.
parseFileReturns(c) ==
  /\ calls[c].pc = "parsing"
  /\ Settled(promises[c])
  /\ IF promises[c].state = "resolved"
       THEN /\ currentFile' = promises[c].value
            /\ calls' = [calls EXCEPT ![c] =
                 RecentFileCalled(Send(@, "file:opened"), "addRecentFile")]
       ELSE /\ calls' = [calls EXCEPT ![c] =
                 Return(Send(@, "error:parsingFileFailed"), Null)]
            /\ UNCHANGED currentFile
  /\ UNCHANGED <<recentFilesJson, existingPaths, recentFilesChanged>>
  /\ UNCHANGED <<fileVars, hostVars, mainVars, notToWindow>>
  /\ Heard(c, <<>>)

\* 'file:addRecentFile' from a window: addRecentFile(path).
addRecentFile(c, filePath) ==
  /\ calls[c].pc = "none"
  /\ calls' = [calls EXCEPT ![c] =
       RecentFileCalled([@ EXCEPT !.op = "addRecentFile", !.path = filePath],
                        "addRecentFile")]
  /\ UNCHANGED <<currentFile, recentFilesJson, existingPaths, recentFilesChanged>>
  /\ UNCHANGED <<fileVars, hostVars, mainVars, notToWindow>>
  /\ Heard(c, <<>>)

\* 'file:clearRecentFiles' from a window: clearRecentFiles(), up to the await
\* of writeFile.
clearRecentFiles(c) ==
  /\ calls[c].pc = "none"
  /\ calls' = [calls EXCEPT ![c] =
       [@ EXCEPT !.op = "clearRecentFiles", !.fn = "clearRecentFiles", !.pc = "writing"]]
  /\ UNCHANGED <<currentFile, recentFilesJson, existingPaths, recentFilesChanged>>
  /\ UNCHANGED <<fileVars, hostVars, mainVars, notToWindow>>
  /\ Heard(c, <<>>)

\* readFile has returned what recentFiles.json holds: the Set is made of it,
\* the path is added or deleted, and writeFile is called with the new list.
readFileReturns(c) ==
  /\ calls[c].pc = "reading"
  /\ calls' = [calls EXCEPT ![c] =
       [@ EXCEPT !.pc = "writing",
                 !.recentFiles = Updated(calls[c].fn, recentFilesJson.list, calls[c].path)]]
  /\ UNCHANGED <<currentFile, recentFilesJson, existingPaths, recentFilesChanged>>
  /\ UNCHANGED <<fileVars, hostVars, mainVars, notToWindow>>
  /\ Heard(c, <<>>)

\* writeFile has written the list and returned: the list is sent to the
\* windows, and the handler that has called returns: openFile and
\* openRecentFile the path after addRecentFile, openRecentFile null after
\* removeRecentFile.
writeFileReturns(c) ==
  /\ calls[c].pc = "writing"
  /\ recentFilesJson' = [exists |-> TRUE, list |-> calls[c].recentFiles]
  /\ recentFilesChanged' = Resolved(calls[c].recentFiles)
  /\ calls' = [calls EXCEPT ![c] =
       Return(@, IF calls[c].op \in {"addRecentFile", "clearRecentFiles"} THEN Undefined
                 ELSE IF calls[c].fn = "addRecentFile" THEN calls[c].path
                 ELSE Null)]
  /\ UNCHANGED <<currentFile, existingPaths>>
  /\ UNCHANGED <<fileVars, hostVars, mainVars, notToWindow>>
  /\ Heard(c, <<[channel |-> "file:recentFilesChanged", args |-> calls[c].recentFiles]>>)

InitHandlers == disk = GoodFile /\ InitObject

\* The windows open files, by the dialog and from the list of recent files,
\* while files appear and the workers run.
NextOpen ==
  \/ \E filePath \in Paths : CreatePath(filePath)
  \/ \E c \in WorkerIds : openFile(c)
  \/ \E c \in WorkerIds : showOpenDialogCanceled(c)
  \/ \E c \in WorkerIds, filePath \in Paths : showOpenDialogReturns(c, filePath)
  \/ \E c \in WorkerIds, filePath \in Paths : openRecentFile(c, filePath)
  \/ \E c \in WorkerIds : parseFileReturns(c)
  \/ \E c \in WorkerIds : readFileReturns(c)
  \/ \E c \in WorkerIds : writeFileReturns(c)
  \/ \E clientId \in WorkerIds : connect(clientId)
  \/ \E clientId \in WorkerIds : emitDone(clientId)
  \/ \E clientId \in WorkerIds : emitError(clientId)
  \/ \E clientId \in WorkerIds : exit(clientId)
  \/ \E id \in WorkerIds : onSocketDisconnected(id)
  \/ \E data \in messages : onMessage(data)

SpecOpen == InitHandlers /\ [][NextOpen]_vars

\* The windows change the list of recent files: they add paths, clear the
\* list, and open recent files that are not there any more.
NextRecent ==
  \/ \E filePath \in Paths : CreatePath(filePath)
  \/ \E c \in WorkerIds, filePath \in Paths : openRecentFile(c, filePath)
  \/ \E c \in WorkerIds, filePath \in Paths : addRecentFile(c, filePath)
  \/ \E c \in WorkerIds : clearRecentFiles(c)
  \/ \E c \in WorkerIds : readFileReturns(c)
  \/ \E c \in WorkerIds : writeFileReturns(c)

SpecRecent == InitHandlers /\ [][NextRecent]_vars

-----------------------------------------------------------------------------
(* The component DataTable *)

\* The filters DataTable is given at most.
MaxFilters == 2

Columns == <<"A", "B">>

Hi == JsString(<<72, 105>>)

Ho == JsString(<<72, 111>>)

\* The tables shown: texts in column A; the number 7 as a number and as a
\* text, and a cell without symbol, in column B.
Tables ==
  { [columns |-> Columns,
     data |-> << <<Ho, JsInt(7)>>, <<Hi, JsString(<<55>>)>>, <<Hi, JsInt(10)>> >>],
    [columns |-> Columns,
     data |-> << <<Hi, Undefined>>, <<Hi, JsInt(7)>> >>] }

RECURSIVE TrimEnd(_)
TrimEnd(codes) ==
  IF codes # <<>> /\ codes[Len(codes)] \in WhiteSpace
    THEN TrimEnd(SubSeq(codes, 1, Len(codes) - 1))
    ELSE codes

\* Number(value), for numbers, null, undefined and the texts that are decimal
\* integers or no numbers at all: a text is trimmed, the empty text is 0, and
\* a text with another character than a sign and digits is NaN.
Number(value) ==
  IF value.t = "int" THEN value.v
  ELSE IF value.t = "null" THEN 0
  ELSE IF value.t = "string"
    THEN LET codes == TrimEnd(TrimStart(value.v))
             signed == codes # <<>> /\ Head(codes) \in {43, 45}
             digits == IF signed THEN Tail(codes) ELSE codes
         IN IF codes = <<>> THEN 0
            ELSE IF digits = <<>> \/ \E i \in 1..Len(digits) : ~IsDigit(digits[i]) THEN NaN
            ELSE IF Head(codes) = 45 THEN 0 - ParseDigits(digits, 0)
            ELSE ParseDigits(digits, 0)
  ELSE NaN

isNaN(value) == Number(value) = NaN

\* s < t for two texts: by their code units.
RECURSIVE TextLess(_, _)
TextLess(s, t) ==
  IF t = <<>> THEN FALSE
  ELSE IF s = <<>> THEN TRUE
  ELSE IF Head(s) # Head(t) THEN Head(s) < Head(t)
  ELSE TextLess(Tail(s), Tail(t))

\* a < b: two texts are compared as texts, and all else as numbers, where no
\* comparison with NaN holds.
LessThan(a, b) ==
  IF a.t = "string" /\ b.t = "string" THEN TextLess(a.v, b.v)
  ELSE ~isNaN(a) /\ ~isNaN(b) /\ Number(a) < Number(b)

\* a <= b
LessOrEqual(a, b) ==
  IF a.t = "string" /\ b.t = "string" THEN ~TextLess(b.v, a.v)
  ELSE ~isNaN(a) /\ ~isNaN(b) /\ Number(a) <= Number(b)

\* The two values as the memo compares them: both as numbers when both are
\* numbers, and else as they are.
Operands(aValue, bValue) ==
  IF ~isNaN(aValue) /\ ~isNaN(bValue)
    THEN [a |-> JsInt(Number(aValue)), b |-> JsInt(Number(bValue))]
    ELSE [a |-> aValue, b |-> bValue]

\* table.columns.indexOf(column)
ColumnIndex(columns, column) == IndexOf(columns, <<column>>)

\* row[columnIndex]
CellOf(row, columnIndex) ==
  IF columnIndex >= 0 /\ columnIndex < Len(row) THEN row[columnIndex + 1] ELSE Undefined

\* The operations of a filter; a filter made without one has "undefined".
Operations == {"eq", "ne", "gt", "ge", "lt", "le"}

\* The switch of the memo over the operation of a filter.
Holds(operation, a, b) ==
  CASE operation = "eq" -> a = b
    [] operation = "ne" -> a # b
    [] operation = "gt" -> LessThan(b, a)
    [] operation = "ge" -> LessOrEqual(b, a)
    [] operation = "lt" -> LessThan(a, b)
    [] operation = "le" -> LessOrEqual(a, b)
    [] OTHER -> FALSE

\* What filter.every(...) gives for a row.
Every(aTable, aFilter, row) ==
  \A i \in 1..Len(aFilter) :
    LET operands == Operands(CellOf(row, ColumnIndex(aTable.columns, aFilter[i].column)),
                             aFilter[i].value)
    IN Holds(aFilter[i].operation, operands.a, operands.b)

\* The function given to preparedTable.sort: -1, 0 or 1, by the first column
\* of the sort, from its k-th on, in which the two rows differ.
RECURSIVE compare(_, _, _, _, _)
compare(aTable, aSort, k, a, b) ==
  IF k > Len(aSort) THEN 0
  ELSE LET operands == Operands(CellOf(a, ColumnIndex(aTable.columns, aSort[k].column)),
                                CellOf(b, ColumnIndex(aTable.columns, aSort[k].column)))
       IN IF LessThan(operands.a, operands.b)
            THEN (IF aSort[k].type = "asc" THEN -1 ELSE 1)
          ELSE IF LessThan(operands.b, operands.a)
            THEN (IF aSort[k].type = "asc" THEN 1 ELSE -1)
          ELSE compare(aTable, aSort, k + 1, a, b)

\* The row is put into the sorted rows, behind the rows that are not after it.
RECURSIVE Insert(_, _, _, _)
Insert(aTable, aSort, sorted, row) ==
  IF sorted # <<>> /\ compare(aTable, aSort, 1, sorted[Len(sorted)], row) > 0
    THEN Append(Insert(aTable, aSort, SubSeq(sorted, 1, Len(sorted) - 1), row),
                sorted[Len(sorted)])
    ELSE Append(sorted, row)

\* array.sort(compare): the sort is stable.
RECURSIVE ArraySort(_, _, _)
ArraySort(aTable, aSort, array) ==
  IF array = <<>> THEN <<>>
  ELSE Insert(aTable, aSort,
              ArraySort(aTable, aSort, SubSeq(array, 1, Len(array) - 1)),
              array[Len(array)])

\* The rows of table.data that pass every filter.
Filtered(aTable, aFilter) ==
  SelectSeq(aTable.data, LAMBDA row : Every(aTable, aFilter, row))

\* A slip of the memo: without filter the rows are not copied, and
\* table.data itself is sorted.
DataMemoInPlace(aTable, aFilter, aSort) ==
  IF aFilter = <<>>
    THEN [data |-> ArraySort(aTable, aSort, aTable.data),
          preparedTable |-> ArraySort(aTable, aSort, aTable.data)]
    ELSE [data |-> aTable.data,
          preparedTable |-> ArraySort(aTable, aSort, Filtered(aTable, aFilter))]

\* The memo `data`: table.data after it has run, and the rows it returns:
\* those of a copy of table.data that pass every filter, sorted.
DataMemo(aTable, aFilter, aSort) ==
  [data |-> aTable.data,
   preparedTable |-> ArraySort(aTable, aSort, Filtered(aTable, aFilter))]

\* DataTable is rendered with the new filter and sort.
Rendered(aFilter, aSort) ==
  /\ filter' = aFilter
  /\ sort' = aSort
  /\ table' = [table EXCEPT !.data = DataMemo(table, aFilter, aSort).data]
  /\ preparedTable' = DataMemo(table, aFilter, aSort).preparedTable

\* addFilter(newFilter): the filter after it.
addFilter(newFilter) ==
  IF \E i \in 1..Len(filter) : filter[i] = newFilter
    THEN filter
    ELSE Append(filter, newFilter)

\* removeFilter(index): the filter after it.
removeFilter(index) ==
  LET kept == {i \in 0..(Len(filter) - 1) : i # index}
      Nth(n) == CHOOSE i \in kept : Cardinality({j \in kept : j < i}) = n - 1
  IN [n \in 1..Cardinality(kept) |-> filter[Nth(n) + 1]]

\* Object.keys(sort).indexOf(column)
SortIndex(aSort, column) ==
  ColumnIndex([k \in 1..Len(aSort) |-> aSort[k].column], column)

\* sort[column]
SortOf(aSort, column) ==
  IF SortIndex(aSort, column) < 0 THEN "undefined"
  ELSE aSort[SortIndex(aSort, column) + 1].type

\* setSort(column, type): the sort after it.  A key that is set again keeps
\* its place, and a new key is the last.
setSort(column, type) ==
  LET kept == {k \in 1..Len(sort) : sort[k].column # column}
      Nth(n) == CHOOSE k \in kept : Cardinality({j \in kept : j < k}) = n - 1
  IN IF type = "null" THEN [n \in 1..Cardinality(kept) |-> sort[Nth(n)]]
     ELSE IF SortIndex(sort, column) < 0
       THEN Append(sort, [column |-> column, type |-> type])
     ELSE [sort EXCEPT ![SortIndex(sort, column) + 1].type = type]

\* The cell of a displayed row is double-clicked.
onDoubleClick(rowIndex, columnIndex) ==
  /\ rowIndex < Len(preparedTable)
  /\ Len(filter) < MaxFilters
  /\ Rendered(addFilter([column |-> table.columns[columnIndex + 1],
                         value |-> preparedTable[rowIndex + 1][columnIndex + 1],
                         operation |-> "eq"]),
              sort)
  /\ UNCHANGED <<cellContext, cellContextMenuCoordinates>>
  /\ UNCHANGED <<notRendererVars, editorVars>>

\* The context menu of the cell of a displayed row is opened.
onContextMenu(rowIndex, columnIndex) ==
  /\ rowIndex < Len(preparedTable)
  /\ cellContext' = [row |-> rowIndex, column |-> table.columns[columnIndex + 1],
                     value |-> preparedTable[rowIndex + 1][columnIndex + 1]]
  /\ cellContextMenuCoordinates' = [x |-> columnIndex, y |-> rowIndex]
  /\ Rendered(filter, sort)
  /\ UNCHANGED <<notRendererVars, editorVars>>

\* The context menu is closed by a click outside of it.
handleClickOutside ==
  /\ cellContextMenuCoordinates # Null
  /\ cellContextMenuCoordinates' = Null
  /\ Rendered(filter, sort)
  /\ UNCHANGED cellContext
  /\ UNCHANGED <<notRendererVars, editorVars>>

\* 'Filter for <value>' of the context menu: onFilter(context.value), without
\* an operation, and onClose().
FilterFor ==
  /\ cellContextMenuCoordinates # Null
  /\ Len(filter) < MaxFilters
  /\ Rendered(addFilter([column |-> cellContext.column, value |-> cellContext.value,
                         operation |-> "undefined"]),
              sort)
  /\ cellContextMenuCoordinates' = Null
  /\ UNCHANGED cellContext
  /\ UNCHANGED <<notRendererVars, editorVars>>

\* An item of the submenu 'Filter...' of the context menu:
\* onFilter(context.value, operation) and onClose().
FilterBy(operation) ==
  /\ cellContextMenuCoordinates # Null
  /\ Len(filter) < MaxFilters
  /\ Rendered(addFilter([column |-> cellContext.column, value |-> cellContext.value,
                         operation |-> operation]),
              sort)
  /\ cellContextMenuCoordinates' = Null
  /\ UNCHANGED cellContext
  /\ UNCHANGED <<notRendererVars, editorVars>>

\* The filter at the index is closed.
TableFilterClose(index) ==
  /\ index < Len(filter)
  /\ Rendered(removeFilter(index), sort)
  /\ UNCHANGED <<cellContext, cellContextMenuCoordinates>>
  /\ UNCHANGED <<notRendererVars, editorVars>>

\* The sort control of the column is clicked.
onSortClick(column) ==
  /\ Rendered(filter,
              IF SortOf(sort, column) = "asc" THEN setSort(column, "desc")
              ELSE IF SortOf(sort, column) = "desc" THEN setSort(column, "null")
              ELSE setSort(column, "asc"))
  /\ UNCHANGED <<cellContext, cellContextMenuCoordinates>>
  /\ UNCHANGED <<notRendererVars, editorVars>>

ColumnIndexes == 0..(Len(Columns) - 1)

RowIndexes == 0..2

\* DataTable is rendered with one of the tables, without filter and sort.
InitTable ==
  /\ disk = GoodFile
  /\ NoProcess
  /\ NewQvdFile
  /\ NoEditor
  /\ table \in Tables
  /\ filter = <<>>
  /\ sort = <<>>
  /\ preparedTable = table.data
  /\ cellContext = Null
  /\ cellContextMenuCoordinates = Null

\* The user filters the table and takes filters away.
NextFilter ==
  \/ \E rowIndex \in RowIndexes, columnIndex \in ColumnIndexes :
       onDoubleClick(rowIndex, columnIndex)
  \/ \E rowIndex \in RowIndexes, columnIndex \in ColumnIndexes :
       onContextMenu(rowIndex, columnIndex)
  \/ handleClickOutside
  \/ FilterFor
  \/ \E operation \in Operations : FilterBy(operation)
  \/ \E index \in 0..(MaxFilters - 1) : TableFilterClose(index)

SpecFilter == InitTable /\ [][NextFilter]_vars

\* The user sorts the table, and filters it by double clicks.
NextSort ==
  \/ \E column \in {Columns[i] : i \in 1..Len(Columns)} : onSortClick(column)
  \/ \E rowIndex \in RowIndexes, columnIndex \in ColumnIndexes :
       onDoubleClick(rowIndex, columnIndex)
  \/ \E index \in 0..(MaxFilters - 1) : TableFilterClose(index)

SpecSort == InitTable /\ [][NextSort]_vars

-----------------------------------------------------------------------------
(* The screen Editor *)

\* The tabs that are being closed at a time at most.
MaxInFlight == 1

\* files.has(key)
MapHas(map, key) == \E i \in 1..Len(map) : map[i].key = key

\* files.get(key)
MapGet(map, key) ==
  IF MapHas(map, key) THEN map[CHOOSE i \in 1..Len(map) : map[i].key = key].value
  ELSE Undefined

\* files.set(key, value): a key that is in the map keeps its place.
MapSet(map, key, value) ==
  IF MapHas(map, key)
    THEN [i \in 1..Len(map) |-> IF map[i].key = key THEN [key |-> key, value |-> value]
                                 ELSE map[i]]
    ELSE Append(map, [key |-> key, value |-> value])

\* files.delete(key)
MapDelete(map, key) == SelectSeq(map, LAMBDA entry : entry.key # key)

\* addFile(path, name): the map after it.  The name is that of the path.
addFile(path) ==
  MapSet(files, path, [name |-> path, table |-> Null, loading |-> TRUE, error |-> "null"])

\* {...files.get(path)}: the properties of the entry, and none of undefined.
Spread(entry) ==
  IF entry = Undefined
    THEN [name |-> Undefined, table |-> Undefined, loading |-> FALSE, error |-> "undefined"]
    ELSE entry

\* setFileLoaded(path, table): the map after it.
setFileLoaded(path, aTable) ==
  MapSet(files, path, [Spread(MapGet(files, path)) EXCEPT !.loading = FALSE,
                                                           !.table = aTable])

\* setFileError(path, error): the map after it.
setFileError(path, error) ==
  MapSet(files, path, [Spread(MapGet(files, path)) EXCEPT !.loading = FALSE,
                                                           !.error = error])

\* removeFile(path): the map after it.
removeFile(path) == MapDelete(files, path)

\* The listeners of Editor: the window receives the first of the messages
\* sent to it, and the listener of its channel is called with its argument.
\* The table of 'file:opened' is left out of the message.
onMessageOfMain ==
  /\ listening
  /\ toWindow # <<>>
  /\ toWindow' = Tail(toWindow)
  /\ LET channel == Head(toWindow).channel
         args == Head(toWindow).args
     IN /\ recentFiles' = IF channel = "file:recentFilesChanged" THEN args ELSE recentFiles
        /\ files' = CASE channel = "file:opening" -> addFile(args)
                      [] channel = "error:parsingFileFailed" -> setFileError(args, channel)
                      [] channel = "error:fileNotFound" -> setFileError(args, channel)
                      [] channel = "file:opened" -> setFileLoaded(args, Null)
                      [] channel = "file:closed" -> removeFile(args)
                      [] OTHER -> files
  /\ UNCHANGED <<listening, toMain>>
  /\ UNCHANGED <<notRendererVars, tableVars>>

\* The messages 'file:close' and 'file:closed' that were not received yet.
InFlight ==
  Len(toMain) + Cardinality({i \in 1..Len(toWindow) : toWindow[i].channel = "file:closed"})

\* The close control of the tab of a file is clicked: 'file:close' is sent
\* with the path.
onTabClose(path) ==
  /\ MapHas(files, path)
  /\ InFlight < MaxInFlight
  /\ toMain' = Append(toMain, [channel |-> "file:close", args |-> path])
  /\ UNCHANGED <<listening, files, recentFiles, toWindow>>
  /\ UNCHANGED <<notRendererVars, tableVars>>

\* The main process receives 'file:close': closeFile(event.sender).  The
\* argument of the message is not passed on, and 'file:closed' is sent without
\* one; `request` is the path that was asked for, which the message does not
\* hold.
closeFile ==
  /\ toMain # <<>>
  /\ toMain' = Tail(toMain)
  /\ currentFile' = Null
  /\ toWindow' = IF listening
                   THEN Append(toWindow, [channel |-> "file:closed", args |-> Undefined,
                                          request |-> Head(toMain).args])
                   ELSE toWindow
  /\ UNCHANGED <<recentFilesJson, existingPaths, calls, recentFilesChanged>>
  /\ UNCHANGED <<fileVars, hostVars, mainVars, tableVars, listening, files, recentFiles>>

\* Editor is mounted and has registered its listeners; 'file:getRecentFiles'
\* has returned the empty list.
InitEditor ==
  /\ disk = GoodFile
  /\ NoProcess
  /\ NewQvdFile
  /\ NoTable
  /\ listening = TRUE
  /\ files = <<>>
  /\ recentFiles = <<>>
  /\ NoMessages

\* The user opens recent files that are not there any more, and closes tabs.
NextEditor ==
  \/ \E c \in WorkerIds, filePath \in Paths : openRecentFile(c, filePath)
  \/ \E c \in WorkerIds : readFileReturns(c)
  \/ \E c \in WorkerIds : writeFileReturns(c)
  \/ onMessageOfMain
  \/ \E path \in Paths : onTabClose(path)
  \/ closeFile

SpecEditor == InitEditor /\ [][NextEditor]_vars

-----------------------------------------------------------------------------
(* Properties *)

\* A component of a QvdValue is present when it is neither null nor undefined.
Present(x) == x.t \notin {"null", "undefined"}

\* The last load() has ended (resolved or rejected) and none is running.
LoadEnded == pc = "idle" /\ outcome \notin {"none", "pending"}

\* _parseIndexTable of the running or of the last load has returned: header,
\* buffer and indexTable are those of one load.
IndexParsed == pc = "return" \/ (pc = "idle" /\ outcome = "resolved")

\* CR LF NUL occurs nowhere in bytes.
NoDelimiterIn(bytes) ==
  \A i \in 1..Len(bytes) :
    ~(i + 2 <= Len(bytes) /\ bytes[i] = 13 /\ bytes[i + 1] = 10 /\ bytes[i + 2] = 0)

\* The bytes of an index record as a little-endian unsigned integer.
RECURSIVE UnsignedLE(_)
UnsignedLE(bytes) ==
  IF bytes = <<>> THEN 0 ELSE Head(bytes) + 256 * UnsignedLE(Tail(bytes))

\* The r-th record (from 1) of the index section of the loaded buffer.
RecordBytes(r) ==
  Subarray(buffer.bytes,
           indexTableOffset + (r - 1) * parseInt(header.RecordByteSize),
           indexTableOffset + r * parseInt(header.RecordByteSize))

\* The bytes a symbol takes in the symbol section: tag, payload, terminator.
SymbolSize(symbol) ==
  1 + (IF Present(symbol.intValue) THEN 4 ELSE 0)
    + (IF Present(symbol.doubleValue) THEN 8 ELSE 0)
    + (IF Present(symbol.stringValue) THEN Len(symbol.stringValue.v) + 1 ELSE 0)

RECURSIVE SymbolsSize(_)
SymbolsSize(symbols) ==
  IF symbols = <<>> THEN 0 ELSE SymbolSize(Head(symbols)) + SymbolsSize(Tail(symbols))

\* C1: on a loaded QvdFile, getRow(r) returns for every row index r in
\* [0, numberOfRows), and its cell at field position f is the primary value of
\* symbolTable[f][indexTable[r][f]].
C1_RowsResolveSymbols ==
  loaded =>
    \A r \in 0..(parseInt(header.NoOfRecords) - 1) :
      /\ getRow(r).kind = "value"
      /\ r < Len(indexTable)
      /\ \A f \in 1..Len(indexTable[r + 1]) :
           (/\ f <= Len(symbolTable)
            /\ indexTable[r + 1][f] >= 0
            /\ indexTable[r + 1][f] < Len(symbolTable[f]))
           => getRow(r).val[f] = toPrimaryValue(symbolTable[f][indexTable[r + 1][f] + 1])

\* C2: toPrimaryValue returns the string value if one is present, else the
\* integer value, else the double value, else null; a decoded symbol that has
\* an integer and a string (tag 0x05) resolves to its string.
C2_PrimaryValueOrder ==
  /\ ret.op = "toPrimaryValue" =>
       /\ ret.res.kind = "value"
       /\ IF Present(ret.arg.stringValue) THEN ret.res.val = ret.arg.stringValue
          ELSE IF Present(ret.arg.intValue) THEN ret.res.val = ret.arg.intValue
          ELSE IF Present(ret.arg.doubleValue) THEN ret.res.val = ret.arg.doubleValue
          ELSE ret.res.val = Null
  /\ \A f \in 1..Len(symbolTable) : \A i \in 1..Len(symbolTable[f]) :
       (Present(symbolTable[f][i].intValue) /\ Present(symbolTable[f][i].stringValue))
       => /\ toPrimaryValue(symbolTable[f][i]) = symbolTable[f][i].stringValue
          /\ toPrimaryValue(symbolTable[f][i]).t = "string"

\* C2 witness: toPrimaryValue was called on a value with an integer and a
\* string, and a dual integer+string symbol was decoded.
C2_Witness ==
  /\ ret.op = "toPrimaryValue"
  /\ Present(ret.arg.intValue) /\ Present(ret.arg.stringValue)
  /\ ret.res.val = ret.arg.stringValue
  /\ \E f \in 1..Len(symbolTable) : \E i \in 1..Len(symbolTable[f]) :
       Present(symbolTable[f][i].intValue) /\ Present(symbolTable[f][i].stringValue)

\* C3: the load of the one-field, two-row file (dual symbols 10/"10" and
\* 20/"20", BitWidth 1, index bytes 0x00 and 0x01) succeeds, fieldNames is
\* ["A"] and the rows are ["10"] and ["20"].
C3_OneFieldFileDecodes ==
  (LoadEnded /\ buffer = OneFieldFile) =>
    /\ outcome = "resolved"
    /\ loaded
    /\ fieldNames.kind = "value" /\ fieldNames.val = <<"A">>
    /\ getRow(0).kind = "value" /\ getRow(0).val = <<JsString(Str10)>>
    /\ getRow(1).kind = "value" /\ getRow(1).val = <<JsString(Str20)>>

\* C4: a load that succeeds leaves an index table with exactly NoOfRecords
\* records (a different number of decoded records makes load() fail).
C4_RecordCountChecked ==
  (pc = "idle" /\ outcome = "resolved") => Len(indexTable) = parseInt(header.NoOfRecords)

C6_IndexIsBitField ==
  IndexParsed =>
    \A r \in 1..Len(indexTable) : \A f \in 1..Len(header.QvdFieldHeader.items) :
      LET field == header.QvdFieldHeader.items[f]
      IN (/\ Len(RecordBytes(r)) = parseInt(header.RecordByteSize)
          /\ parseInt(field.BitWidth) > 0
          /\ parseInt(field.BitOffset) + parseInt(field.BitWidth) <= 8 * parseInt(header.RecordByteSize))
         => indexTable[r][f] =
              ((UnsignedLE(RecordBytes(r)) \div Pow(2, parseInt(field.BitOffset)))
                 % Pow(2, parseInt(field.BitWidth))) + parseInt(field.Bias)

\* C6 witness: a field of at least two bits that starts in the second byte of
\* a record was decoded to an index with more than the bias in it.
C6_Witness ==
  /\ IndexParsed
  /\ Len(indexTable) >= 1
  /\ Len(RecordBytes(1)) = parseInt(header.RecordByteSize)
  /\ \E f \in 1..Len(header.QvdFieldHeader.items) :
       LET field == header.QvdFieldHeader.items[f]
       IN /\ parseInt(field.BitWidth) >= 2
          /\ parseInt(field.BitOffset) >= 9
          /\ parseInt(field.BitOffset) + parseInt(field.BitWidth) <= 8 * parseInt(header.RecordByteSize)
          /\ indexTable[1][f] - parseInt(field.Bias) >= 2

\* C7: when CR LF NUL occurs nowhere in the buffer, the header step of load()
\* ends the load with the delimiter error, and the loaded flag, the header and
\* both tables stay as they were: nothing of that file becomes readable.
C7_NoDelimiterRejected ==
  [][(pc = "header" /\ pc' # "header" /\ NoDelimiterIn(buffer.bytes))
     => /\ pc' = "idle"
        /\ outcome' = "Error: no header delimiter"
        /\ loaded' = loaded
        /\ header' = header
        /\ symbolTable' = symbolTable
        /\ indexTable' = indexTable]_vars

\* C7 witness: the load of a buffer without the delimiter was rejected, on an
\* object that was never loaded, and getTable then threw.
C7_Witness ==
  /\ LoadEnded
  /\ outcome = "Error: no header delimiter"
  /\ NoDelimiterIn(buffer.bytes)
  /\ ~loaded
  /\ ret.op = "getTable" /\ ret.res.kind = "error"

\* C8: the load of a file with an unknown tag byte fails, and after a load
\* that failed so nothing is readable: fieldNames, getRow and getTable throw.
C8_UnknownTagNothingReadable ==
  /\ (LoadEnded /\ buffer = BadTagFile) => outcome = "Error: Unknown data type"
  /\ (LoadEnded /\ outcome = "Error: Unknown data type") =>
       /\ fieldNames.kind = "error"
       /\ getTable.kind = "error"
       /\ \A index \in 0..MaxIndex : getRow(index).kind = "error"

\* C9: on a loaded QvdFile, getRow(index) throws 'Index is out of bounds' for
\* every index outside [0, numberOfRows), negative indices included.
C9_OutOfRangeRejected ==
  loaded =>
    \A index \in -1..MaxIndex :
      (index < 0 \/ index >= parseInt(header.NoOfRecords))
      => /\ getRow(index).kind = "error"
         /\ getRow(index).err = "Error: Index is out of bounds"

\* C10: when the symbol decoder returns without a fault, the symbols of each
\* field take exactly the Length bytes the field declares: an overrun or an
\* underrun is a fault.
C10_SymbolsEndAtDeclaredLength ==
  pc = "index" =>
    \A f \in 1..Len(symbolTable) :
      SymbolsSize(symbolTable[f]) = parseInt(header.QvdFieldHeader.items[f].Length)

\* x is the text of a base-10 integer: an optional sign and then digits only.
IsInteger(x) ==
  /\ x.t = "string"
  /\ LET body == IF x.v # <<>> /\ Head(x.v) \in {43, 45} THEN Tail(x.v) ELSE x.v
     IN body # <<>> /\ \A i \in 1..Len(body) : IsDigit(body[i])

\* A numeric element of the parsed header hdr is missing or no integer.
HasBadAttribute(hdr) ==
  \/ \E a \in TableAttributes : ~IsInteger(hdr[a])
  \/ \E f \in 1..Len(hdr.QvdFieldHeader.items) : \E a \in FieldAttributes :
       ~IsInteger(hdr.QvdFieldHeader.items[f][a])

\* C11: when a required numeric header attribute (the table's Offset, Length,
\* RecordByteSize, NoOfRecords, or a field's Offset, Length, BitOffset,
\* BitWidth, Bias) is missing or is no base-10 integer, load() does not get
\* through its phases and the file never becomes loaded.
C11_BadAttributeRejected ==
  (pc = "return" \/ loaded) => ~HasBadAttribute(header)

\* The symbol table is the one decoded from the present header and buffer.
SymbolsParsed == pc \in {"index", "return"} \/ (pc = "idle" /\ outcome = "resolved")

\* this._buffer.subarray(this._symbolTableOffset, this._indexTableOffset)
SymbolSection == Subarray(buffer.bytes, symbolTableOffset, indexTableOffset)

\* C12: the symbols decoded for a field are, in order, the symbols whose
\* bytes lie one right after the other from the field's offset on: each takes
\* its tag byte and the payload of that tag (4 bytes for 0x01, 8 for 0x02,
\* string and NUL for 0x04, 4 bytes, string and NUL for 0x05, 8 bytes, string
\* and NUL for 0x06), it has the components of its tag and no other, and the
\* bytes 0x04 'H' 'i' 0x00 give the string "Hi" without integer and double.
\* Every next tag being read right after the symbol before it, the decoder
\* comes through a range of whole symbols, and ends at the range's end.
C12_CursorTakesTagAndPayload ==
  /\ pc # "hung"
  /\ outcome \in {"none", "pending", "resolved"}
  /\ SymbolsParsed =>
       \A f \in 1..Len(symbolTable) :
         LET symbolsOffset == parseInt(header.QvdFieldHeader.items[f].Offset)
             symbolsLength == parseInt(header.QvdFieldHeader.items[f].Length)
             symbols == symbolTable[f]
         IN /\ \A i \in 1..Len(symbols) : EncodeSymbol(symbols[i]) # <<>>
            /\ SymbolsSize(symbols) = Len(EncodeSymbols(symbols))
            /\ SymbolsSize(symbols) = symbolsLength
            /\ Subarray(SymbolSection, symbolsOffset, symbolsOffset + symbolsLength)
                 = EncodeSymbols(symbols)
            /\ \A i \in 1..Len(symbols) :
                 LET at == symbolsOffset + SymbolsSize(SubSeq(symbols, 1, i - 1))
                 IN Subarray(SymbolSection, at, at + 4) = <<4>> \o StrHi \o <<0>>
                    => symbols[i] = QvdValue(Null, Null, JsString(StrHi))

\* C12 witness: a field was decoded to a double+string symbol followed by the
\* string "Hi", and the next field to "Hi" followed by an integer.
C12_Witness ==
  /\ SymbolsParsed
  /\ Len(symbolTable) = 2
  /\ symbolTable[1] = <<fromDualDoubleValue(JsDouble(DoublePi), JsString(Str20)),
                        fromStringValue(JsString(StrHi))>>
  /\ symbolTable[2] = <<fromStringValue(JsString(StrHi)), fromIntValue(JsInt(7))>>

\* The header and the two offsets are those parsed from the present buffer.
HeaderParsed == pc \in {"symbols", "index", "return", "hung"} \/ (pc = "idle" /\ outcome = "resolved")

\* The number of bytes before the first CR LF NUL of bytes.
RECURSIVE BytesBeforeDelimiter(_)
BytesBeforeDelimiter(bytes) ==
  IF Len(bytes) < 3 \/ SubSeq(bytes, 1, 3) = <<13, 10, 0>> THEN 0
  ELSE 1 + BytesBeforeDelimiter(Tail(bytes))

\* C13: after header parsing the symbol-table offset is the index just past
\* the first CR LF NUL of the buffer (delimiter index + 3), the index-table
\* offset is the symbol-table offset plus the declared Offset, and the symbols
\* of a field are those at the field's Offset counted from the symbol-table
\* offset.
C13_OffsetsFollowHeader ==
  /\ HeaderParsed =>
       /\ symbolTableOffset = BytesBeforeDelimiter(buffer.bytes) + 3
       /\ indexTableOffset = symbolTableOffset + parseInt(header.Offset)
  /\ SymbolsParsed =>
       \A f \in 1..Len(symbolTable) :
         LET from == symbolTableOffset + parseInt(header.QvdFieldHeader.items[f].Offset)
         IN SubSeq(buffer.bytes, from + 1,
                   from + parseInt(header.QvdFieldHeader.items[f].Length))
              = EncodeSymbols(symbolTable[f])

\* C13 witness: the header was parsed from a buffer in which CR LF NUL occurs
\* again after the header, and the second field, at an Offset above 0, was
\* decoded to its two symbols.
C13_Witness ==
  /\ SymbolsParsed
  /\ \E i \in (symbolTableOffset + 1)..(Len(buffer.bytes) - 2) :
       SubSeq(buffer.bytes, i, i + 2) = <<13, 10, 0>>
  /\ symbolTableOffset = 9
  /\ indexTableOffset > symbolTableOffset
  /\ Len(symbolTable) = 2
  /\ parseInt(header.QvdFieldHeader.items[2].Offset) > 0
  /\ Len(symbolTable[2]) = 2

\* C14: on a loaded file getTable() returns the columns fieldNames and the
\* data getRow(0), ..., getRow(numberOfRows - 1) in this order.  (getRow and
\* getTable are functions of the object's state, which Call leaves unchanged.)
C14_TableIsRowsInOrder ==
  loaded =>
    /\ getTable.kind = "value"
    /\ fieldNames.kind = "value"
    /\ getTable.val.columns = fieldNames.val
    /\ Len(getTable.val.data) = numberOfRows.val
    /\ \A i \in 0..(numberOfRows.val - 1) :
         /\ getRow(i).kind = "value"
         /\ getTable.val.data[i + 1] = getRow(i).val

\* C15: after a successful load numberOfRows is the NoOfRecords the file's
\* header declares, and fieldNames is the list of the names of the declared
\* fields, in the order of their declaration and as many as are declared.
C15_RowCountAndNamesAsDeclared ==
  (pc = "idle" /\ outcome = "resolved") =>
    /\ numberOfRows.kind = "value"
    /\ Text(numberOfRows.val) = buffer.xml.NoOfRecords
    /\ fieldNames.kind = "value"
    /\ Len(fieldNames.val) = Len(buffer.xml.Fields)
    /\ \A f \in 1..Len(buffer.xml.Fields) :
         fieldNames.val[f] = buffer.xml.Fields[f].FieldName

\* C15 witness: a file of two fields that declares three records and holds
\* two was loaded, numberOfRows is 3 and fieldNames is A, B.
C15_Witness ==
  /\ pc = "idle" /\ outcome = "resolved"
  /\ buffer = FewRecordsFile
  /\ Len(indexTable) = 2
  /\ numberOfRows = Returned(3)
  /\ fieldNames = Returned(<<"A", "B">>)
  /\ ret.op = "numberOfRows" /\ ret.res = Returned(3)

\* The accessors that answer for the table.
Accessors == {"fieldNames", "numberOfRows", "getRow", "getTable"}

\* C16: the loaded flag becomes true only in the last step of a load() whose
\* read, header, symbol-table and index-table phases have all returned, in
\* this order and on the same buffer; and while the flag is false fieldNames,
\* numberOfRows, getRow and getTable throw the 'not loaded' error.
C16_LoadedOnlyAfterAllPhases ==
  /\ [](pc = "return" =>
         /\ HeaderResult(buffer) =
              Returned([header |-> header, symbolTableOffset |-> symbolTableOffset,
                        indexTableOffset |-> indexTableOffset])
         /\ SymbolTableResult(header, buffer, symbolTableOffset, indexTableOffset)
              = Returned(symbolTable)
         /\ IndexTableResult(header, buffer, indexTableOffset) = Returned(indexTable))
  /\ [](~loaded =>
         /\ fieldNames = NotLoaded
         /\ numberOfRows = NotLoaded
         /\ getTable = NotLoaded
         /\ \A index \in -1..MaxIndex : getRow(index) = NotLoaded
         /\ ret.op \in Accessors => ret.res = NotLoaded)
  /\ [][(~loaded /\ loaded') => (pc = "return" /\ pc' = "idle" /\ outcome' = "resolved")]_vars

\* C16 witness: getRow threw 'not loaded' on an object that a load, through
\* all its phases, has since made loaded.
C16_Witness ==
  /\ loaded
  /\ pc = "idle" /\ outcome = "resolved"
  /\ Len(symbolTable) = 2 /\ Len(indexTable) = 2
  /\ ret.op = "getRow" /\ ret.res = NotLoaded

\* C17: when the file cannot be opened or read, load() is rejected with that
\* error in its read step, no other phase runs, and the header, both tables,
\* the loaded flag (and the buffer) stay as they were.
C17_ReadFailureLeavesObject ==
  [][(pc = "read" /\ pc' # "read" /\ "error" \in DOMAIN disk)
     => /\ pc' = "idle"
        /\ outcome' = disk.error
        /\ header' = header
        /\ symbolTable' = symbolTable
        /\ indexTable' = indexTable
        /\ loaded' = loaded
        /\ buffer' = buffer]_vars

\* C17 witness: a second load of a loaded object was rejected because the
\* file is gone; the object is loaded as before and getTable has returned.
C17_Witness ==
  /\ pc = "idle" /\ outcome = "ENOENT"
  /\ disk = MissingFile
  /\ loaded
  /\ buffer = GoodFile
  /\ Len(symbolTable) = 2 /\ Len(indexTable) = 2
  /\ ret.op = "getTable" /\ ret.res.kind = "value"

\* The result of deserialize is a QvdFile with the path, header and index
\* table of the object, as many columns, as many symbols in each column, and
\* in each symbol the three components of the symbol at its place.
Preserved(result, object) ==
  /\ result.kind = "value"
  /\ Get(object, "_symbolTable").t = "array"
  /\ Get(result.val, "_path") = Get(object, "_path")
  /\ Get(result.val, "_header") = Get(object, "_header")
  /\ Get(result.val, "_indexTable") = Get(object, "_indexTable")
  /\ LET rebuilt == Get(result.val, "_symbolTable").v
         sent == Get(object, "_symbolTable").v
     IN /\ Len(rebuilt) = Len(sent)
        /\ \A c \in 1..Len(sent) :
             /\ Len(rebuilt[c].v) = Len(sent[c].v)
             /\ \A i \in 1..Len(sent[c].v) :
                  \A name \in {"_intValue", "_doubleValue", "_stringValue"} :
                    Get(rebuilt[c].v[i], name) = Get(sent[c].v[i], name)

\* C18: once the 'done' message of a job's worker has arrived, the job is
\* resolved with the deserialized payload, and that QvdFile has the path,
\* header, index table, columns and symbols of what the worker sent.
C18_TablePreserved ==
  \A w \in WorkerIds :
    joins[w].state = "resolved"
      => /\ Preserved(deserialize(joins[w].value.payload), joins[w].value.payload)
         /\ promises[w] = Resolved(deserialize(joins[w].value.payload).val)

\* C19: a job's promise, once settled, stays as it is; it is settled only in
\* a step in which the host receives a 'done' or 'error' message sent by the
\* job's own worker, and it is rejected with the payload of that message; the
\* job's join('done', workerId) is resolved only by a 'done' message of that
\* worker.  So no message of another job's worker settles it.
C19_JobKeyedByWorkerId ==
  [][\A w \in WorkerIds :
       /\ Settled(promises[w]) => promises'[w] = promises[w]
       /\ Settled(joins[w]) => joins'[w] = joins[w]
       /\ (~Settled(promises[w]) /\ Settled(promises'[w]))
            => \E data \in messages :
                 /\ messages' = messages \ {data}
                 /\ data.from = w
                 /\ data.type \in {"done", "error"}
                 /\ data.type = "error" => promises'[w] = Rejected(data.payload)
       /\ (~Settled(joins[w]) /\ Settled(joins'[w]))
            => \E data \in messages :
                 /\ messages' = messages \ {data}
                 /\ data.from = w
                 /\ data.type = "done"
                 /\ joins'[w] = Resolved([payload |-> data.payload, from |-> w])]_vars

\* C19 witness: two jobs were in flight; one was rejected by the 'error' of
\* its worker, the 'done' of the other's worker has arrived, and neither
\* message has touched the other job.
C19_Witness ==
  \E w, v \in WorkerIds :
    /\ w # v
    /\ promises[w].state = "rejected" /\ joins[w] = Pending
    /\ joins[v].state = "resolved" /\ joins[v].value.from = v
    /\ promises[v] = Pending

\* Nothing more can come from the worker: its process has ended before it
\* emitted, or it has emitted and the host has received all its messages.
WorkerIsSilent(w) ==
  /\ workers[w] \in {"exited", "emitted"}
  /\ \A data \in messages : data.from # w

\* C20: a submitted job whose worker can send nothing more has reported its
\* completion: its promise is resolved or rejected.
C20_JobCompletes ==
  \A w \in WorkerIds : WorkerIsSilent(w) => Settled(promises[w])

\* C21: once an instance is registered it stays the registered one; every
\* getInstance call returns the instance that is registered after it; and a
\* constructor call made while an instance is registered throws
\* 'WorkerHost is a singleton'.
C21_Singleton ==
  [][/\ _instance # Undefined => _instance' = _instance
     /\ (last' # last /\ last'.op = "getInstance") => last'.res = Returned(_instance')
     /\ (last' # last /\ last'.op = "new WorkerHost" /\ _instance # Undefined)
          => last'.res = Threw("WorkerHost is a singleton")]_vars

\* C22: load() never enters a loop that cannot end: each of its phases
\* returns or throws, whatever the buffer holds.
C22_LoadTerminates == pc # "hung"

\* The header and both tables of the object are what one successful load of
\* the buffer f assigns.
DecodedFrom(f) ==
  /\ HeaderResult(f).kind = "value"
  /\ header = HeaderResult(f).val.header
  /\ LET h == HeaderResult(f).val
         symbols == SymbolTableResult(h.header, f, h.symbolTableOffset, h.indexTableOffset)
         index == IndexTableResult(h.header, f, h.indexTableOffset)
     IN /\ symbols.kind = "value" /\ symbolTable = symbols.val
        /\ index.kind = "value" /\ indexTable = index.val

\* C23: whenever the accessors answer (the object counts as loaded), header,
\* symbol table and index table are those of one successfully completed load
\* of one of the files that were at the path.
C23_TablesOfOneLoad == loaded => \E f \in Files : DecodedFrom(f)

\* The symbol index is a position of the field's symbol list.
InSymbolList(f, symbolIndex) == symbolIndex >= 0 /\ symbolIndex < Len(symbolTable[f])

\* C24: on a loaded object, getRow of a row that exists returns; the cell of
\* a field whose symbol index is outside the field's symbol list (negative, or
\* not below the length of the list) is undefined, and every other cell is the
\* primary value of the symbol at the index.
C24_OutOfRangeCellIsAbsent ==
  loaded =>
    \A index \in 0..MaxIndex :
      (index < Len(indexTable) /\ Lt(index, parseInt(header.NoOfRecords)))
      => /\ getRow(index).kind = "value"
         /\ Len(getRow(index).val) = Len(indexTable[index + 1])
         /\ \A f \in 1..Len(indexTable[index + 1]) :
              getRow(index).val[f] =
                IF InSymbolList(f, indexTable[index + 1][f])
                  THEN toPrimaryValue(symbolTable[f][indexTable[index + 1][f] + 1])
                  ELSE Undefined

\* C24 witness: getRow(0) has returned a row in which the cell of field A is
\* undefined, its symbol index being negative or past the list, and the cell
\* of field B is a value.
C24_Witness ==
  /\ loaded
  /\ ret.op = "getRow" /\ ret.arg = JsInt(0) /\ ret.res.kind = "value"
  /\ Len(indexTable) >= 1 /\ Len(indexTable[1]) = 2
  /\ ~InSymbolList(1, indexTable[1][1])
  /\ InSymbolList(2, indexTable[1][2])
  /\ ret.res.val[1] = Undefined
  /\ ret.res.val[2] # Undefined

\* The call is an attempt to open a file that was not cancelled: openFile
\* after the dialog has returned a path, or openRecentFile of a path that
\* exists.
OpenAttempt(c) ==
  /\ calls[c].op \in {"openFile", "openRecentFile"}
  /\ calls[c].pc \in {"parsing", "reading", "writing", "done"}
  /\ calls[c].sent # <<>>
  /\ calls[c].fn # "removeRecentFile"

\* The terminal events the call has sent, by their places in what it sent.
Terminals(c) ==
  {i \in 1..Len(calls[c].sent) :
     calls[c].sent[i] \in {"file:opened", "error:parsingFileFailed"}}

\* C25: an open attempt has sent 'file:opening' first and at most one
\* terminal event after it; when the handler has returned, it has sent exactly
\* one, and has returned the path if that was 'file:opened' and null if not;
\* and when nothing more can come from the worker of the attempt, the terminal
\* event was sent or the settled promise of parseFile is about to send it.
C25_OneTerminalEvent ==
  \A c \in WorkerIds :
    OpenAttempt(c)
    => /\ calls[c].sent[1] = "file:opening"
       /\ 1 \notin Terminals(c)
       /\ Cardinality(Terminals(c)) <= 1
       /\ calls[c].pc = "done"
            => /\ Cardinality(Terminals(c)) = 1
               /\ calls[c].result =
                    Resolved(IF calls[c].sent[Len(calls[c].sent)] = "file:opened"
                               THEN calls[c].path ELSE Null)
       /\ WorkerIsSilent(c) => (Terminals(c) # {} \/ Settled(promises[c]))

\* The paths of a list.
Range(list) == {list[i] : i \in 1..Len(list)}

\* The calls of addRecentFile, and of removeRecentFile, that have returned.
Returned_(fn) == {c \in WorkerIds : calls[c].fn = fn /\ calls[c].pc = "done"}

\* C26: when no addRecentFile or removeRecentFile call is under way (and
\* the list was not cleared), recentFiles.json holds every path that was added
\* and not removed, holds no path twice, and the last
\* 'file:recentFilesChanged' carried the list it holds.
C26_NoLostUpdate ==
  (/\ \A c \in WorkerIds : calls[c].pc \notin {"reading", "writing"}
   /\ \A c \in WorkerIds : calls[c].fn # "clearRecentFiles"
   /\ Returned_("addRecentFile") # {})
  => /\ \A c \in Returned_("addRecentFile") :
          (\A d \in Returned_("removeRecentFile") : calls[d].path # calls[c].path)
          => calls[c].path \in Range(recentFilesJson.list)
     /\ Cardinality(Range(recentFilesJson.list)) = Len(recentFilesJson.list)
     /\ recentFilesChanged = Resolved(recentFilesJson.list)

\* The call is openRecentFile of a path nothing was at.
NotFound(c) == calls[c].op = "openRecentFile" /\ calls[c].fn = "removeRecentFile"

-----------------------------------------------------------------------------
(* The component DataTable: filters and sort *)

\* The filter a double click on the cell of the context menu would add.
EqFilter == [column |-> cellContext.column, value |-> cellContext.value, operation |-> "eq"]

\* C28: choosing 'Filter for <value>' in the context menu of a cell adds a
\* filter after which the displayed rows are the rows whose value in the
\* column of the cell equals the value, as after the double click that adds
\* the 'eq' filter, and table.data is not modified.
C28_FilterForIsEq ==
  [][FilterFor =>
       /\ preparedTable' = DataMemo(table, addFilter(EqFilter), sort).preparedTable
       /\ table' = table]_vars

\* The sort state that follows a sort state at a click.
NextSortOf(type) ==
  IF type = "undefined" THEN "asc" ELSE IF type = "asc" THEN "desc" ELSE "undefined"

ColumnNames == {Columns[i] : i \in 1..Len(Columns)}

\* C29: a click on the sort control of a column takes the sort state of the
\* column from unsorted to 'asc', from 'asc' to 'desc' and from 'desc' to
\* unsorted, leaves the sort state of every other column and the filter list
\* as they are, and does not reorder table.data.
C29_SortClickCycles ==
  [][\A column \in ColumnNames :
       onSortClick(column) =>
         /\ SortOf(sort', column) = NextSortOf(SortOf(sort, column))
         /\ \A other \in ColumnNames \ {column} : SortOf(sort', other) = SortOf(sort, other)
         /\ filter' = filter
         /\ table' = table]_vars

\* A filtered table of more than one row, sorted by both columns, the column
\* clicked last being sorted downwards, is displayed in another order than
\* that of table.data.
C29_Witness ==
  /\ filter # <<>>
  /\ Len(sort) = 2
  /\ sort[2].type = "desc"
  /\ Len(preparedTable) > 1
  /\ preparedTable # Filtered(table, filter)

-----------------------------------------------------------------------------
(* The screen Editor: closing a file *)

\* The keys of the map.
Keys(map) == {map[i].key : i \in 1..Len(map)}

\* C30: when the window receives the 'file:closed' that answers the
\* 'file:close' of a tab, the entry of the path of that tab is removed from
\* the map of open files, and the entries of the other files are kept.
C30_ClosedFileIsRemoved ==
  [][(onMessageOfMain /\ Head(toWindow).channel = "file:closed") =>
       /\ Keys(files') = Keys(files) \ {Head(toWindow).request}
       /\ \A key \in Keys(files') : MapGet(files', key) = MapGet(files, key)]_vars

====
